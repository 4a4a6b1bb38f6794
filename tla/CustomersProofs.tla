--------------------------- MODULE CustomersProofs ---------------------------
(***************************************************************************)
(* Theorems about the users and the customers of BackOffice, and their     *)
(* accounts, for every pool of requests and every load.                    *)
(***************************************************************************)
EXTENDS BackOfficeProofs, FiniteSetTheorems

-----------------------------------------------------------------------------
(* Users. *)

UserCols == [email : Emails, hash : Passwords, attempts : Nat, locked : BOOLEAN, deleted : BOOLEAN]

Newcomers == Jobs({"register", "create customer"})

(* Users are inserted once; a login holds a copy of some user's row. *)
UsersInv ==
  /\ users \in [Clients -> UserCols \cup {NoUser}]
  /\ \A r \in Jobs({"login"}) : pc[r] \in {"count", "reset"} =>
       /\ held[r] = [id |-> held[r].id, row |-> held[r].row]
       /\ held[r].id \in Clients /\ held[r].row \in UserCols
  /\ \A r \in Newcomers : pc[r] \in {"new", "start", "insert user"} => users[Who(r)] = NoUser

LEMMA NoUserIsNoRow == NoUser \notin UserCols
<1> SUFFICES ASSUME NoUser \in UserCols PROVE FALSE
  OBVIOUS
<1>1. DOMAIN NoUser = {"email"}
  BY DEF NoUser
<1>2. "hash" \in DOMAIN NoUser
  BY DEF UserCols
<1>3. QED
  BY <1>1, <1>2

(* A step leaves user u's row, changes it, or inserts it. *)
RowStep(u) ==
  \/ users'[u] = users[u]
  \/ GetByID(u) /\ users'[u] \in UserCols
  \/ /\ users[u] = NoUser
     /\ \E r \in Newcomers : /\ Who(r) = u /\ pc[r] = "insert user"
                             /\ pc'[r] \notin {"new", "start", "insert user"}
                             /\ users'[u] = NewUser(JobOf[r].email, JobOf[r].password)

UsersStep ==
  users' = [u \in Clients |-> users'[u]] /\ \A u \in Clients : RowStep(u)

LEMMA UpdateStep ==
  ASSUME UsersInv, NEW u \in Clients, NEW row, Update(u, row), GetByID(u) => row \in UserCols
  PROVE  UsersStep
<1>1. users' = [users EXCEPT ![u] = IF GetByID(u) THEN row ELSE users[u]]
  BY DEF Update
<1>2. \A v \in Clients : users'[v] = users[v] \/ (v = u /\ GetByID(u) /\ users'[v] = row)
  BY <1>1 DEF UsersInv
<1>3. users' = [v \in Clients |-> users'[v]]
  BY <1>1 DEF UsersInv
<1>4. QED
  BY <1>2, <1>3 DEF UsersStep, RowStep

LEMMA UpdatesKeepTypes ==
  ASSUME UsersInv, NEW u \in Clients, GetByID(u)
  PROVE  /\ users[u] \in UserCols
         /\ \A e \in Emails : [users[u] EXCEPT !.email = e] \in UserCols
         /\ \A p \in Passwords : [users[u] EXCEPT !.hash = p] \in UserCols
         /\ [users[u] EXCEPT !.deleted = TRUE] \in UserCols
         /\ \A n \in Nat, b \in BOOLEAN :
              [users[u] EXCEPT !.attempts = n, !.locked = b] \in UserCols
  BY DEF UsersInv, UserCols, GetByID

LEMMA UsersWritten ==
  ASSUME CallsInv, UsersInv, NEW r \in load.work, OnUsers(r)
  PROVE  UsersStep
<1>1. /\ Who(r) \in Clients /\ JobOf[r].email \in Emails /\ JobOf[r].password \in Passwords
      /\ r \in Requests
  BY CallAssumption, UserAssumption DEF CallsInv, CallTypes
<1>2. pc = [q \in load.work |-> pc[q]]
  BY DEF CallsInv, CallTypes
<1>3. CASE UNCHANGED users
  BY <1>3 DEF UsersStep, RowStep, UsersInv
<1>4. CASE InsertNewUser(r)
  <2>1. r \in Newcomers /\ pc[r] = "insert user" /\ pc'[r] \notin {"new", "start", "insert user"}
    BY <1>2, <1>4 DEF InsertNewUser, Runs, At, Goto, Newcomers, Jobs
  <2>2. users[Who(r)] = NoUser
    BY <2>1 DEF UsersInv
  <2>3. CASE users' = [users EXCEPT ![Who(r)] = NewUser(JobOf[r].email, JobOf[r].password)]
    BY <1>1, <2>1, <2>2, <2>3 DEF UsersStep, RowStep, UsersInv
  <2>4. QED
    BY <1>3, <1>4, <2>3 DEF InsertNewUser, InsertUser
<1>5. CASE ResetFailedLoginAttempts(Who(r))
  BY <1>1, <1>5, UpdateStep, UpdatesKeepTypes DEF ResetFailedLoginAttempts
<1>6. CASE DeleteUserRow(Who(r))
  BY <1>1, <1>6, UpdateStep, UpdatesKeepTypes DEF DeleteUserRow
<1>7. CASE UpdateEmail(Who(r), JobOf[r].email)
  BY <1>1, <1>7, UpdateStep, UpdatesKeepTypes DEF UpdateEmail
<1>8. CASE UpdatePasswordHash(Who(r), JobOf[r].password)
  BY <1>1, <1>8, UpdateStep, UpdatesKeepTypes DEF UpdatePasswordHash
<1>9. \/ UNCHANGED users \/ InsertNewUser(r) \/ ResetFailedLoginAttempts(Who(r))
      \/ DeleteUserRow(Who(r)) \/ UpdateEmail(Who(r), JobOf[r].email)
      \/ UpdatePasswordHash(Who(r), JobOf[r].password)
  BY DEF OnUsers, Register, AddCustomer, CreateCustomer, GetMyProfile, GetProfileOf, GetCustomerProfile,
         CheckEmail, UpdateMyEmail, UpdateMyPassword, ResetCustomerPassword, DeleteOwner, UnlockUser,
         DeleteUser, UpdateCustomerEmail, CheckNewEmail, FindForEmail, WriteEmail, CustomerUpdatePassword,
         AdminResetPassword, FindForPassword, WritePassword, Find
<1>10. QED
  BY <1>3, <1>4, <1>5, <1>6, <1>7, <1>8, <1>9

LEMMA SessionsWriteUsers ==
  ASSUME CallsInv, UsersInv, NEW r \in load.work, OnSessions(r)
  PROVE  UsersStep
<1>1. CASE UNCHANGED users
  BY <1>1 DEF UsersStep, RowStep, UsersInv
<1>2. ASSUME Op(r) = "login", pc[r] \in {"count", "reset"},
             UpdateFailedLoginAttempts(held[r].id, held[r].row)
      PROVE  UsersStep
  <2>1. held[r].id \in Clients /\ held[r].row.attempts \in Nat /\ held[r].row.locked \in BOOLEAN
    BY <1>2 DEF UsersInv, Jobs, UserCols
  <2>2. QED
    BY <1>2, <2>1, UpdateStep, UpdatesKeepTypes DEF UpdateFailedLoginAttempts
<1>3. \/ UNCHANGED users
      \/ /\ Op(r) = "login" /\ pc[r] \in {"count", "reset"}
         /\ UpdateFailedLoginAttempts(held[r].id, held[r].row)
  BY DEF OnSessions, SessionStep, RequireAuth, Login, LookUp, CountGuess, ForgetGuesses, GenerateTokens,
         RefreshToken, RefreshTokens, GetByTokenHash, FindOwner, RevokeOld, Logout, BlacklistToken,
         RevokeAll, Runs, At, Logged, sessionTables
<1>4. QED
  BY <1>1, <1>2, <1>3

LEMMA EveryStepOnUsers ==
  ASSUME CallsInv, UsersInv, BackOfficeNext
  PROVE  UsersStep
<1>1. CASE UNCHANGED users
  BY <1>1 DEF UsersStep, RowStep, UsersInv
<1>2. QED
  BY <1>1, UsersWritten, SessionsWriteUsers, Families DEF BackOfficeNext, tables

LEMMA NewcomersStep ==
  ASSUME CallsInv, BackOfficeNext, NEW q \in Newcomers, pc'[q] \in {"new", "start", "insert user"}
  PROVE  pc[q] \in {"new", "start", "insert user"}
<1> DEFINE ops == {"register", "create customer"}
<1>1. CASE \A r \in Jobs(ops) : Waits(r)
  BY <1>1 DEF Waits, Newcomers
<1>2. ASSUME NEW r \in Jobs(ops), Acts(r) PROVE pc[q] \in {"new", "start", "insert user"}
  <2>1. /\ r \in load.work /\ Op(r) \in ops /\ q \in load.work
        /\ \A p \in load.work \ {r} : pc'[p] = pc[p]
    BY <1>2, ActsMove, OneMoves DEF Jobs, CallsInv, Newcomers
  <2>2. CASE r = q
    <3>1. CheckEmail(q) \/ InsertNewUser(q) \/ CreateAccountsForNewUser(q)
      BY <1>2, <2>1, <2>2, Families
         DEF Acts, OnUsers, OnSessions, OnAccounts, Register, AddCustomer, CreateCustomer, GetMyProfile,
             GetProfileOf, ExternalOps, Runs, At,
             UpdateMyEmail, UpdateMyPassword, ResetCustomerPassword, DeleteOwner, UnlockUser, DeleteUser,
             UpdateCustomerEmail, CheckNewEmail, FindForEmail, WriteEmail, CustomerUpdatePassword,
             AdminResetPassword, FindForPassword, WritePassword, Find,
             OpenMyAccount, OpenForCustomer, GetMyAccounts, GetAccountsOf, PerformTransaction,
             UpdateAccountStatus, CloseAccount, MoveAccount, CreateAccount,
             CreateAccountForCustomer, GetCustomerAccounts, Deposit, TransferAccountOwnership,
             DeleteCustomer, FindCustomer, CheckBalance, SweepAccounts, MarkSwept, Decide
    <3>2. CASE CheckEmail(q) \/ InsertNewUser(q)
      BY <3>2 DEF CheckEmail, InsertNewUser, Arrives, Runs, At
    <3>3. CASE CreateAccountsForNewUser(q)
      <4>1. pc'[q] \in {"savings", "done"}
        BY <2>1, <3>3 DEF CreateAccountsForNewUser, Goto, CallsInv, CallTypes
      <4>2. QED
        BY <4>1
    <3>4. QED
      BY <3>1, <3>2, <3>3
  <2>3. QED
    BY <2>1, <2>2
<1>3. QED
  BY <1>1, <1>2, Bystanders

(* What a login has read stays until it ends. *)
LEMMA LoginsReadOnce ==
  ASSUME CallsInv, BackOfficeNext, NEW q \in Jobs({"login"})
  PROVE  \/ held'[q] = held[q] /\ (pc'[q] \in {"count", "reset"} => pc'[q] = pc[q])
         \/ LookUp(q)
<1>1. CASE \A r \in Jobs({"login"}) : Waits(r)
  BY <1>1 DEF Waits
<1>2. ASSUME NEW r \in Jobs({"login"}), Acts(r), ~LookUp(q)
      PROVE  held'[q] = held[q] /\ (pc'[q] \in {"count", "reset"} => pc'[q] = pc[q])
  <2>1. /\ r \in load.work /\ Op(r) = "login" /\ q \in load.work /\ OnSessions(r) /\ ~RequireAuth(r)
        /\ \A p \in load.work \ {r} : pc'[p] = pc[p] /\ held'[p] = held[p]
    BY <1>2, Families, ActsMove, OneMoves
       DEF Acts, Jobs, UserOps, AccountOps, ExternalOps, CallsInv
  <2>2. CASE r = q
    <3>1. CountGuess(q) \/ ForgetGuesses(q) \/ GenerateTokens(q)
      BY <1>2, <2>1, <2>2
         DEF OnSessions, SessionStep, Login, RefreshToken, RefreshTokens, GetByTokenHash, FindOwner,
             RevokeOld, Logout, BlacklistToken, RevokeAll, Runs, At, Arrives
    <3>2. QED
      BY <2>1, <3>1 DEF CountGuess, ForgetGuesses, GenerateTokens, Goto, CallsInv, CallTypes
  <2>3. QED
    BY <2>1, <2>2
<1>3. QED
  BY <1>1, <1>2, Bystanders

(* A login that finds its user takes a copy of the row, or is refused. *)
LEMMA LookUpReads ==
  ASSUME CallsInv, UsersInv, NEW q \in load.work, LookUp(q)
  PROVE  \/ held'[q] = held[q] /\ pc'[q] \in {"wrong", "refused"}
         \/ \E u \in GetByEmail(JobOf[q].email) :
              \/ /\ pc'[q] = "reset" /\ held'[q] = Copy(u, ResetFailedAttempts(users[u]))
                 /\ ~users[u].locked /\ JobOf[q].password = users[u].hash
              \/ /\ pc'[q] = "count" /\ held'[q] = Copy(u, IncrementFailedAttempts(users[u]))
                 /\ ~users[u].locked /\ JobOf[q].password # users[u].hash
<1>1. pc = [r \in load.work |-> pc[r]] /\ held = [r \in load.work |-> held[r]]
  BY DEF CallsInv, CallTypes
<1>2. CASE Goto(q, "wrong")
  BY <1>1, <1>2 DEF Goto
<1>3. ASSUME NEW u \in GetByEmail(JobOf[q].email), Guess(q, u)
      PROVE  \/ held'[q] = held[q] /\ pc'[q] = "refused"
             \/ /\ pc'[q] = "reset" /\ held'[q] = Copy(u, ResetFailedAttempts(users[u]))
                /\ ~users[u].locked /\ JobOf[q].password = users[u].hash
             \/ /\ pc'[q] = "count" /\ held'[q] = Copy(u, IncrementFailedAttempts(users[u]))
                /\ ~users[u].locked /\ JobOf[q].password # users[u].hash
  <2>1. \/ Goto(q, "refused")
        \/ /\ Read(q, "reset", Copy(u, ResetFailedAttempts(users[u])))
           /\ ~users[u].locked /\ JobOf[q].password = users[u].hash
        \/ /\ Read(q, "count", Copy(u, IncrementFailedAttempts(users[u])))
           /\ ~users[u].locked /\ JobOf[q].password # users[u].hash
    BY <1>3, Zenon DEF Guess, IsLocked, ComparePassword
  <2>2. QED
    BY <1>1, <2>1 DEF Goto, Read
<1>4. QED
  BY <1>2, <1>3 DEF LookUp

LEMMA CountsKeepTypes ==
  ASSUME NEW row \in UserCols
  PROVE  ResetFailedAttempts(row) \in UserCols /\ IncrementFailedAttempts(row) \in UserCols
<1>1. ResetFailedAttempts(row) \in UserCols
  BY DEF ResetFailedAttempts, UserCols
<1> DEFINE full == row.attempts + 1 >= MaxFailedLoginAttempts
<1>2. (row.locked \/ full) \in BOOLEAN
  OBVIOUS
<1> HIDE DEF full
<1>3. \A n \in Nat, b \in BOOLEAN : [row EXCEPT !.attempts = n, !.locked = b] \in UserCols
  BY DEF UserCols
<1>4. IncrementFailedAttempts(row)
        = [row EXCEPT !.attempts = row.attempts + 1, !.locked = (row.locked \/ full)]
  BY DEF IncrementFailedAttempts, full
<1>5. row.attempts + 1 \in Nat
  BY DEF UserCols
<1>6. QED
  BY <1>1, <1>2, <1>3, <1>4, <1>5

LEMMA UsersInvStep ==
  ASSUME CallsInv, BackOfficeNext, UsersInv
  PROVE  UsersInv'
<1>1. UsersStep
  BY EveryStepOnUsers
<1>2. /\ UNCHANGED load /\ load.work \subseteq Requests /\ Newcomers' = Newcomers
      /\ Newcomers \subseteq load.work /\ Jobs({"login"})' = Jobs({"login"})
      /\ Jobs({"login"}) \subseteq load.work
  BY CallsStep, CallAssumption DEF CallsInv, CallTypes, Newcomers, Jobs
<1>3. ASSUME NEW u \in Clients PROVE users'[u] \in UserCols \cup {NoUser}
  <2>1. \A r \in Newcomers : NewUser(JobOf[r].email, JobOf[r].password) \in UserCols
    BY <1>2, UserAssumption DEF NewUser, UserCols, JobOf
  <2>2. QED
    BY <1>1, <2>1 DEF UsersStep, RowStep, UsersInv
<1>4. ASSUME NEW q \in Jobs({"login"}), pc'[q] \in {"count", "reset"}
      PROVE  /\ held'[q] = [id |-> held'[q].id, row |-> held'[q].row]
             /\ held'[q].id \in Clients /\ held'[q].row \in UserCols
  <2>1. CASE held'[q] = held[q] /\ pc'[q] = pc[q]
    BY <1>4, <2>1 DEF UsersInv
  <2>2. CASE LookUp(q)
    <3>1. PICK u \in GetByEmail(JobOf[q].email) :
            \/ held'[q] = Copy(u, ResetFailedAttempts(users[u]))
            \/ held'[q] = Copy(u, IncrementFailedAttempts(users[u]))
      BY <1>2, <1>4, <2>2, LookUpReads
    <3>2. u \in Clients /\ users[u] \in UserCols
      BY <3>1 DEF GetByEmail, GetByID, UsersInv
    <3>3. ResetFailedAttempts(users[u]) \in UserCols /\ IncrementFailedAttempts(users[u]) \in UserCols
      BY <3>2, CountsKeepTypes
    <3>4. QED
      BY <3>1, <3>2, <3>3 DEF Copy
  <2>3. QED
    BY <1>4, <2>1, <2>2, LoginsReadOnce
<1>5. ASSUME NEW r \in Newcomers, pc'[r] \in {"new", "start", "insert user"}
      PROVE  users'[Who(r)] = NoUser
  <2>1. Who(r) \in Clients /\ \A q \in Newcomers \ {r} : Who(q) # Who(r)
    BY <1>2, UserAssumption DEF Registering, Newcomers, Jobs
  <2>2. users[Who(r)] = NoUser
    BY <1>5, NewcomersStep DEF UsersInv
  <2>3. QED
    BY <1>1, <1>5, <2>1, <2>2 DEF UsersStep, RowStep, GetByID
<1>6. QED
  BY <1>1, <1>2, <1>3, <1>4, <1>5 DEF UsersInv, UsersStep, Who

-----------------------------------------------------------------------------
(* Customers' accounts. *)

AccountCols == [owner : Clients, type : Types, status : Statuses, balance : Nat, deleted : BOOLEAN]

A(r) == JobOf[r].account

SaverOps == {"deposit", "set status", "close"}

(* The statements of OnAccounts that write the table. *)
Opens(r) ==
  /\ Op(r) \in {"register", "open", "open for"}
  /\ Op(r) = "register" => pc[r] \in {"checking", "savings"}
  /\ Op(r) # "register" => pc[r] = "insert" /\ pc'[r] = "done"
  /\ \E b \in Opened(r), type \in Types, n \in Nat :
       /\ accounts' = [accounts EXCEPT ![b] = NewAccount(Who(r), type, n)]
       /\ Op(r) = "open" => type = JobOf[r].type
SavesCopy(r) ==
  /\ Op(r) \in SaverOps /\ pc[r] = "save" /\ pc'[r] = "done"
  /\ SaveAccount(A(r), held[r].row)
Hands(r) ==
  /\ Op(r) = "move" /\ pc[r] = "own" /\ pc'[r] = "done"
  /\ GetAccountByID(A(r)) /\ UpdateOwnership(A(r), JobOf[r].to)
Sweeps(r) ==
  /\ Op(r) = "delete customer" /\ pc[r] = "sweep" /\ pc'[r] \in {"mark", "done"}
  /\ SoftDelete(Who(r))
Marks(r) ==
  /\ Op(r) = "delete customer" /\ pc[r] = "mark" /\ pc'[r] = "done"
  /\ MarkInactive(Who(r)) \/ UNCHANGED accounts

(* The statements that only read it, and the users. *)
Checks(r) ==
  /\ UNCHANGED accounts
  /\ Op(r) = "open" =>
       /\ pc'[r] \in {"exists", "insert", "refused"}
       /\ pc'[r] = "exists" => GetByID(Who(r))
       /\ pc'[r] = "insert" => pc[r] = "exists" /\ ~ExistsForUser(Who(r), JobOf[r].type)
  /\ Op(r) = "open for" => pc'[r] \in {"insert", "refused"} /\ (pc'[r] = "insert" => GetByID(Who(r)))
  /\ Op(r) = "accounts" =>
       \/ pc[r] = "start" /\ pc'[r] = "list" /\ GetByID(Who(r))
       \/ pc[r] = "list" /\ pc'[r] = "done"
       \/ pc'[r] = "refused"
  /\ Op(r) = "move" => pc'[r] \notin {"start", "done"} /\ (pc'[r] = "own" => GetByID(JobOf[r].to))
  /\ Op(r) = "delete customer" =>
       /\ pc'[r] \notin {"sweep", "mark", "done"}
       /\ pc'[r] = "delete" => TotalBalanceIsZero(Who(r))
  /\ Op(r) \in SaverOps =>
       /\ pc'[r] \in {"read", "save", "refused"}
       /\ pc'[r] = "save" =>
            /\ GetAccountByID(A(r)) /\ accounts[A(r)].status # "closed"
            /\ held'[r] = [id |-> A(r), row |-> held'[r].row]
            /\ \/ held'[r].row = Deposited(accounts[A(r)], 1)
               \/ \E status \in Statuses : held'[r].row = [accounts[A(r)] EXCEPT !.status = status]

LEMMA AccountSteps ==
  ASSUME CallsInv, NEW r \in load.work, OnAccounts(r)
  PROVE  Opens(r) \/ SavesCopy(r) \/ Hands(r) \/ Sweeps(r) \/ Marks(r) \/ Checks(r)
<1>1. r \in Requests /\ pc = [q \in load.work |-> pc[q]] /\ held = [q \in load.work |-> held[q]]
  BY CallAssumption DEF CallsInv, CallTypes
<1>2. /\ JobOf[r].type \in Types /\ JobOf[r].amount \in Nat
      /\ Op(r) \in {"set status", "close"} => JobOf[r].status \in Statuses
  BY <1>1, CustomerAssumption DEF JobOf
<1>3. CASE CreateAccountsForNewUser(r)
  <2>1. Op(r) = "register" /\ pc[r] \in {"checking", "savings"}
    BY <1>3 DEF CreateAccountsForNewUser, At
  <2>2. CASE UNCHANGED accounts
    BY <2>1, <2>2 DEF Checks, SaverOps
  <2>3. ASSUME NEW type \in {"checking", "savings"},
               InsertAccount(JobOf[r].accounts[type], NewAccount(Who(r), type, 1))
        PROVE  Opens(r)
    BY <2>1, <2>3 DEF Opens, Opened, InsertAccount, Types
  <2>4. QED
    BY <1>3, <2>2, <2>3 DEF CreateAccountsForNewUser
<1>4. CASE CreateAccount(r)
  <2>1. Op(r) = "open"
    BY <1>4 DEF CreateAccount, Decide, Runs, At
  <2>2. CASE pc[r] = "insert"
    BY <1>1, <1>2, <1>4, <2>1, <2>2 DEF CreateAccount, Decide, Runs, At, Goto, InsertAccount, Opens,
           Opened
  <2>3. CASE pc[r] # "insert"
    BY <1>1, <1>4, <2>1, <2>3 DEF CreateAccount, Decide, Runs, At, Goto, Checks, SaverOps
  <2>4. QED
    BY <2>2, <2>3
<1>5. CASE CreateAccountForCustomer(r)
  <2>1. Op(r) = "open for"
    BY <1>5 DEF CreateAccountForCustomer, Decide, Runs, At
  <2>2. CASE pc[r] = "insert"
    BY <1>1, <1>2, <1>5, <2>1, <2>2 DEF CreateAccountForCustomer, Decide, Runs, At, Goto, InsertAccount, Opens,
           Opened
  <2>3. CASE pc[r] # "insert"
    BY <1>1, <1>5, <2>1, <2>3 DEF CreateAccountForCustomer, Decide, Runs, At, Goto, Checks, SaverOps
  <2>4. QED
    BY <2>2, <2>3
<1>6. CASE GetCustomerAccounts(r, "accounts") \/ GetCustomerAccounts(r, "accounts of")
  BY <1>1, <1>6 DEF GetCustomerAccounts, Decide, Runs, At, Goto, Checks, SaverOps
<1>7. CASE Deposit(r)
  <2>1. Op(r) = "deposit"
    BY <1>7 DEF Deposit, Decide, Runs, At
  <2>2. CASE pc[r] = "save"
    BY <1>1, <1>7, <2>1, <2>2 DEF Deposit, Decide, Runs, At, Goto, SavesCopy, SaverOps, A
  <2>3. CASE pc[r] # "save"
    BY <1>1, <1>7, <2>1, <2>3 DEF Deposit, Decide, Runs, At, Goto, Read, Checks, SaverOps, A, IsActive
  <2>4. QED
    BY <2>2, <2>3
<1>8. CASE SetStatus(r)
  <2>1. Op(r) \in {"set status", "close"}
    BY <1>8 DEF SetStatus, Runs, At
  <2>2. CASE pc[r] = "save"
    BY <1>1, <1>8, <2>1, <2>2 DEF SetStatus, Runs, At, Goto, SavesCopy, SaverOps, A
  <2>3. CASE pc[r] # "save"
    <3> DEFINE row == [accounts[A(r)] EXCEPT !.status = JobOf[r].status]
    <3>1. /\ UNCHANGED accounts
          /\ \/ Goto(r, "refused")
             \/ /\ Read(r, "save", [id |-> A(r), row |-> row])
                /\ GetAccountByID(A(r)) /\ accounts[A(r)].status # "closed"
      BY <1>8, <2>3 DEF SetStatus, Runs, At, A, Access, StatusAllowed
    <3>2. CASE Goto(r, "refused")
      BY <1>1, <2>1, <3>1, <3>2 DEF Goto, Checks, SaverOps
    <3>3. CASE /\ Read(r, "save", [id |-> A(r), row |-> row])
               /\ GetAccountByID(A(r)) /\ accounts[A(r)].status # "closed"
      <4>1. pc'[r] = "save" /\ held'[r] = [id |-> A(r), row |-> row]
        BY <1>1, <3>3 DEF Read
      <4>2. \E status \in Statuses : row = [accounts[A(r)] EXCEPT !.status = status]
        BY <1>2, <2>1
      <4> HIDE DEF row
      <4>3. held'[r].row = row
        BY <4>1
      <4>4. QED
        BY <2>1, <3>1, <3>3, <4>1, <4>2, <4>3 DEF Checks, SaverOps
    <3>4. QED
      BY <3>1, <3>2, <3>3
  <2>4. QED
    BY <2>2, <2>3
<1>9. CASE TransferAccountOwnership(r)
  <2>1. Op(r) = "move"
    BY <1>9 DEF TransferAccountOwnership, Decide, Runs, At
  <2>2. CASE pc[r] = "own"
    <3>1. \/ (Goto(r, "failed") \/ Goto(r, "refused")) /\ UNCHANGED accounts
          \/ Goto(r, "done") /\ GetAccountByID(A(r)) /\ UpdateOwnership(A(r), JobOf[r].to)
      BY <1>9, <2>2 DEF TransferAccountOwnership, Decide, Runs, At, A
    <3>2. QED
      BY <1>1, <2>1, <2>2, <3>1 DEF Goto, Hands, Checks, SaverOps
  <2>3. CASE pc[r] # "own"
    BY <1>1, <1>9, <2>1, <2>3 DEF TransferAccountOwnership, Decide, Runs, At, Goto, Checks, SaverOps
  <2>4. QED
    BY <2>2, <2>3
<1>10. CASE DeleteCustomer(r)
  <2>1. Op(r) = "delete customer"
    BY <1>10 DEF DeleteCustomer, FindCustomer, CheckBalance, SweepAccounts, MarkSwept, Decide, Runs, At
  <2>2. CASE FindCustomer(r) \/ CheckBalance(r)
    BY <1>1, <2>1, <2>2 DEF FindCustomer, CheckBalance, Decide, Runs, At, Goto, Checks, SaverOps
  <2>3. CASE SweepAccounts(r)
    BY <1>1, <2>1, <2>3 DEF SweepAccounts, Runs, At, Goto, Sweeps
  <2>4. CASE MarkSwept(r)
    BY <1>1, <2>1, <2>4 DEF MarkSwept, Logged, At, Goto, Marks
  <2>5. QED
    BY <1>10, <2>2, <2>3, <2>4 DEF DeleteCustomer
<1>11. QED
  BY <1>3, <1>4, <1>5, <1>6, <1>7, <1>8, <1>9, <1>10
     DEF OnAccounts, OpenMyAccount, OpenForCustomer, GetMyAccounts, GetAccountsOf, PerformTransaction,
         UpdateAccountStatus, CloseAccount, MoveAccount

(* A request that does not wait runs a statement of its own. *)
LEMMA OwnStep ==
  ASSUME CallsInv, BackOfficeNext, NEW q \in load.work, Op(q) # "verify"
  PROVE  Waits(q) \/ Acts(q)
<1>1. load.work \subseteq Requests /\ DOMAIN pc = load.work
  BY CallAssumption DEF CallsInv, CallTypes
<1>2. q \in Jobs({Op(q)}) /\ "verify" \notin {Op(q)}
  BY DEF Jobs
<1>3. ASSUME NEW r \in Jobs({Op(q)}), Acts(r), r # q PROVE Waits(q)
  <2>1. r \in load.work /\ r \in Requests
    BY <1>1 DEF Jobs
  <2>2. CASE Moves(r) /\ Ticks(r)
    BY <1>3, <2>1, <2>2, OneMoves DEF CallsInv, Waits
  <2>3. CASE Registers(r)
    <3>1. Op(JobOf[r].verifier) = "verify"
      BY <2>1, <2>3, ExternalAssumption DEF Registers, JobOf
    <3>2. pc'[q] = pc[q] /\ held'[q] = held[q]
      BY <1>1, <1>3, <2>3, <3>1 DEF Registers, StartVerifier
    <3>3. QED
      BY <3>2 DEF Waits
  <2>4. QED
    BY <1>1, <1>3, <2>1, <2>2, <2>3, UsersMove, SessionsMove, AccountsMove, ExternalsMove DEF Acts
<1>4. QED
  BY <1>2, <1>3, Bystanders

Deleters == Jobs({"delete customer"})
Savers == Jobs(SaverOps)
Movers == Jobs({"move"})
Openers == Jobs({"open", "open for", "register"})

(* The steps of a customer's deletion. *)
LEMMA DeletersStep ==
  ASSUME CallsInv, BackOfficeNext, NEW d \in Deleters
  PROVE  \/ Waits(d)
         \/ /\ pc[d] = "delete" /\ UNCHANGED accounts /\ DeleteUserRow(Who(d))
            /\ pc'[d] = IF GetByID(Who(d)) THEN "sweep" ELSE "refused"
         \/ Sweeps(d) \/ Marks(d) \/ Checks(d)
<1>1. d \in load.work /\ Op(d) = "delete customer" /\ pc = [q \in load.work |-> pc[q]]
  BY DEF Deleters, Jobs, CallsInv, CallTypes
<1>2. CASE OnUsers(d)
  <2>1. DeleteOwner(d) /\ UNCHANGED accounts
    BY <1>1, <1>2
       DEF OnUsers, Register, AddCustomer, CreateCustomer, GetMyProfile, GetProfileOf, UnlockUser, DeleteUser,
           UpdateMyEmail, UpdateMyPassword, ResetCustomerPassword, Runs, At,
           UpdateCustomerEmail, CheckNewEmail, FindForEmail, WriteEmail, CustomerUpdatePassword,
           AdminResetPassword, FindForPassword, WritePassword, Find
  <2>2. QED
    BY <1>1, <2>1 DEF DeleteOwner, Runs, At, Goto
<1>3. CASE OnAccounts(d)
  BY <1>1, <1>3, AccountSteps DEF Opens, SavesCopy, Hands, SaverOps
<1>4. QED
  BY <1>1, <1>2, <1>3, OwnStep, Families DEF Acts, ExternalOps

(* The steps of the other requests about accounts. *)
LEMMA AccountRequestsStep ==
  ASSUME CallsInv, BackOfficeNext, NEW q \in load.work, Op(q) \in AccountOps \ UserOps
  PROVE  Waits(q) \/ (OnAccounts(q) /\ (Opens(q) \/ SavesCopy(q) \/ Hands(q) \/ Checks(q)))
<1>1. Op(q) # "verify" /\ Op(q) \notin {"login", "refresh", "logout", "delete customer"}
  BY DEF AccountOps, UserOps
<1>2. Acts(q) => OnAccounts(q)
  BY <1>1, Families DEF Acts, ExternalOps, AccountOps, UserOps
<1>3. QED
  BY <1>1, <1>2, OwnStep, AccountSteps DEF Sweeps, Marks

(* What a step does to the row of account a. *)
AccountStep(a) ==
  \/ accounts'[a] = accounts[a]
  \/ \E r \in Openers :
       /\ Called(r) /\ ~HasEnded(r) /\ a \in Opened(r)
       /\ Op(r) = "register" => pc[r] \in {"checking", "savings"}
       /\ Op(r) # "register" => pc[r] = "insert" /\ pc'[r] = "done"
       /\ \E type \in Types, n \in Nat :
            /\ accounts'[a] = NewAccount(Who(r), type, n)
            /\ Op(r) = "open" => type = JobOf[r].type
  \/ \E r \in Savers : a = A(r) /\ pc[r] = "save" /\ accounts'[a] = held[r].row
  \/ \E r \in Movers : /\ a = A(r) /\ pc[r] = "own" /\ GetAccountByID(a)
                       /\ accounts'[a] = [accounts[a] EXCEPT !.owner = JobOf[r].to]
  \/ \E d \in Deleters : /\ pc[d] = "sweep" /\ a \in GetByUserID(Who(d))
                         /\ accounts'[a] = [accounts[a] EXCEPT !.deleted = TRUE]
  \/ \E d \in Deleters : /\ pc[d] = "mark" /\ accounts[a] # NoAccount /\ accounts[a].deleted
                         /\ accounts'[a] = [accounts[a] EXCEPT !.status = "inactive"]

LEMMA EveryStepOnAccounts ==
  ASSUME CallsInv, BackOfficeNext, accounts = [a \in Accounts |-> accounts[a]]
  PROVE  accounts' = [a \in Accounts |-> accounts'[a]] /\ \A a \in Accounts : AccountStep(a)
<1>1. CASE UNCHANGED accounts
  BY <1>1 DEF AccountStep
<1>2. ASSUME NEW r \in load.work, Opens(r)
      PROVE  accounts' = [a \in Accounts |-> accounts'[a]] /\ \A a \in Accounts : AccountStep(a)
  <2>1. r \in Openers /\ Called(r) /\ ~HasEnded(r)
    BY <1>2 DEF Opens, Openers, Jobs, Called, HasEnded, Ended
  <2>2. PICK b \in Opened(r), type \in Types, n \in Nat :
          /\ accounts' = [accounts EXCEPT ![b] = NewAccount(Who(r), type, n)]
          /\ Op(r) = "open" => type = JobOf[r].type
    BY <1>2 DEF Opens
  <2>3. \A a \in Accounts : accounts'[a] = accounts[a] \/ (a = b /\ accounts'[a] = NewAccount(Who(r), type, n))
    BY <2>2
  <2>4. QED
    BY <1>2, <2>1, <2>2, <2>3 DEF AccountStep, Opens
<1>3. ASSUME NEW r \in load.work, SavesCopy(r)
      PROVE  accounts' = [a \in Accounts |-> accounts'[a]] /\ \A a \in Accounts : AccountStep(a)
  BY <1>3 DEF SavesCopy, SaveAccount, AccountStep, Savers, Jobs
<1>4. ASSUME NEW r \in load.work, Hands(r)
      PROVE  accounts' = [a \in Accounts |-> accounts'[a]] /\ \A a \in Accounts : AccountStep(a)
  BY <1>4 DEF Hands, UpdateOwnership, AccountStep, Movers, Jobs
<1>5. ASSUME NEW r \in load.work, Sweeps(r)
      PROVE  accounts' = [a \in Accounts |-> accounts'[a]] /\ \A a \in Accounts : AccountStep(a)
  BY <1>5 DEF Sweeps, SoftDelete, AccountStep, Deleters, Jobs
<1>6. ASSUME NEW r \in load.work, Marks(r)
      PROVE  accounts' = [a \in Accounts |-> accounts'[a]] /\ \A a \in Accounts : AccountStep(a)
  BY <1>6 DEF Marks, MarkInactive, AccountStep, Deleters, Jobs
<1>7. \/ UNCHANGED accounts
      \/ \E r \in load.work : Opens(r) \/ SavesCopy(r) \/ Hands(r) \/ Sweeps(r) \/ Marks(r)
  BY AccountSteps, Families DEF BackOfficeNext, tables, Checks
<1>8. QED
  BY <1>1, <1>2, <1>3, <1>4, <1>5, <1>6, <1>7

Gone(u) == users[u] # NoUser /\ users[u].deleted

(* Copies are of rows that were there, and what is deleted went with its owner. *)
AccountsInv ==
  /\ accounts \in [Accounts -> AccountCols \cup {NoAccount}]
  /\ \A q \in Savers : pc[q] = "save" => held[q].row \in AccountCols /\ ~held[q].row.deleted
  /\ \A a \in Accounts : accounts[a] # NoAccount /\ accounts[a].deleted => Gone(accounts[a].owner)
  /\ \A d \in Deleters : pc[d] \in {"sweep", "mark", "done"} => Gone(Who(d))

LEMMA NoAccountIsNoRow == NoAccount \notin AccountCols
<1> SUFFICES ASSUME NoAccount \in AccountCols PROVE FALSE
  OBVIOUS
<1>1. DOMAIN NoAccount = {"owner"}
  BY DEF NoAccount
<1>2. "type" \in DOMAIN NoAccount
  BY DEF AccountCols
<1>3. QED
  BY <1>1, <1>2

LEMMA GoneStays ==
  ASSUME UsersStep, NEW u \in Clients, Gone(u)
  PROVE  users'[u] # NoUser /\ users'[u].deleted
BY NoUserIsNoRow DEF UsersStep, RowStep, Gone, GetByID

LEMMA ChangesKeepTypes ==
  ASSUME NEW row \in AccountCols
  PROVE  /\ \A u \in Clients : [row EXCEPT !.owner = u] \in AccountCols
         /\ \A s \in Statuses : [row EXCEPT !.status = s] \in AccountCols
         /\ [row EXCEPT !.deleted = TRUE] \in AccountCols
         /\ Deposited(row, 1) \in AccountCols
<1>1. \A u \in Clients : [row EXCEPT !.owner = u] \in AccountCols
  BY DEF AccountCols
<1>2. \A s \in Statuses : [row EXCEPT !.status = s] \in AccountCols
  BY DEF AccountCols
<1>3. [row EXCEPT !.deleted = TRUE] \in AccountCols
  BY DEF AccountCols
<1>4. Deposited(row, 1) \in AccountCols
  <2>1. row.balance + 1 \in Nat
    BY DEF AccountCols
  <2>2. \A n \in Nat : [row EXCEPT !.balance = n] \in AccountCols
    BY DEF AccountCols
  <2>3. QED
    BY <2>1, <2>2 DEF Deposited
<1>5. QED
  BY <1>1, <1>2, <1>3, <1>4

LEMMA AccountsInvStep ==
  ASSUME CallsInv, BackOfficeNext, UsersInv, AccountsInv
  PROVE  AccountsInv'
<1>1. /\ UsersStep /\ accounts' = [a \in Accounts |-> accounts'[a]]
      /\ \A a \in Accounts : AccountStep(a)
  BY EveryStepOnUsers, EveryStepOnAccounts DEF AccountsInv
<1>2. /\ UNCHANGED load /\ load.work \subseteq Requests
      /\ Savers' = Savers /\ Deleters' = Deleters /\ Savers \subseteq load.work
      /\ Deleters \subseteq load.work /\ Openers \subseteq load.work /\ Movers \subseteq load.work
  BY CallsStep, CallAssumption DEF CallsInv, CallTypes, Savers, Deleters, Openers, Movers, Jobs
<1>3. \A r \in load.work : Who(r) \in Clients /\ JobOf[r].to \in Clients /\ A(r) \in Accounts
  BY <1>2, UserAssumption, CustomerAssumption DEF A, JobOf
<1>4. "inactive" \in Statuses /\ "active" \in Statuses
  BY DEF Statuses
<1>5. ASSUME NEW a \in Accounts
      PROVE  /\ accounts'[a] \in AccountCols \cup {NoAccount}
             /\ accounts'[a] # NoAccount /\ accounts'[a].deleted =>
                  users'[accounts'[a].owner] # NoUser /\ users'[accounts'[a].owner].deleted
  <2>1. accounts[a] \in AccountCols \cup {NoAccount}
    BY DEF AccountsInv
  <2>2. CASE accounts'[a] = accounts[a]
    <3>1. accounts[a] # NoAccount => accounts[a].owner \in Clients
      BY <2>1 DEF AccountCols
    <3>2. QED
      BY <1>1, <2>1, <2>2, <3>1, GoneStays DEF AccountsInv
  <2>3. ASSUME NEW r \in load.work, NEW type \in Types, NEW n \in Nat,
               accounts'[a] = NewAccount(Who(r), type, n)
        PROVE  accounts'[a] \in AccountCols /\ ~accounts'[a].deleted
    BY <1>3, <1>4, <2>3 DEF NewAccount, AccountCols
  <2>4. ASSUME NEW r \in Savers, pc[r] = "save", accounts'[a] = held[r].row
        PROVE  accounts'[a] \in AccountCols /\ ~accounts'[a].deleted
    BY <2>4 DEF AccountsInv
  <2>5. ASSUME NEW r \in Movers, GetAccountByID(a), accounts'[a] = [accounts[a] EXCEPT !.owner = JobOf[r].to]
        PROVE  accounts'[a] \in AccountCols /\ ~accounts'[a].deleted
    <3>1. accounts[a] \in AccountCols /\ ~accounts[a].deleted /\ JobOf[r].to \in Clients
      BY <1>2, <1>3, <2>1, <2>5 DEF GetAccountByID
    <3>2. \A u \in Clients : [accounts[a] EXCEPT !.owner = u] \in AccountCols
      BY <3>1, ChangesKeepTypes
    <3>3. ~accounts'[a].deleted
      BY <2>5, <3>1 DEF AccountCols
    <3>4. QED
      BY <2>5, <3>1, <3>2, <3>3
  <2>6. ASSUME NEW d \in Deleters, pc[d] = "sweep", a \in GetByUserID(Who(d)),
               accounts'[a] = [accounts[a] EXCEPT !.deleted = TRUE]
        PROVE  /\ accounts'[a] \in AccountCols
               /\ users'[accounts'[a].owner] # NoUser /\ users'[accounts'[a].owner].deleted
    <3>1. /\ accounts[a] \in AccountCols /\ accounts[a].owner = Who(d)
          /\ Gone(Who(d)) /\ Who(d) \in Clients
      BY <1>2, <1>3, <2>1, <2>6 DEF GetByUserID, GetAccountByID, AccountsInv
    <3>2. accounts'[a].owner = Who(d)
      BY <2>6, <3>1 DEF AccountCols
    <3>3. users'[Who(d)] # NoUser /\ users'[Who(d)].deleted
      BY <1>1, <3>1, GoneStays
    <3>4. accounts'[a] \in AccountCols
      BY <2>6, <3>1, ChangesKeepTypes
    <3>5. QED
      BY <3>2, <3>3, <3>4
  <2>7. ASSUME accounts[a] # NoAccount, accounts[a].deleted,
               accounts'[a] = [accounts[a] EXCEPT !.status = "inactive"]
        PROVE  /\ accounts'[a] \in AccountCols
               /\ users'[accounts'[a].owner] # NoUser /\ users'[accounts'[a].owner].deleted
    <3>1. accounts[a] \in AccountCols /\ accounts[a].owner \in Clients /\ Gone(accounts[a].owner)
      BY <2>1, <2>7 DEF AccountsInv, AccountCols
    <3>2. accounts'[a].owner = accounts[a].owner
      BY <2>7, <3>1 DEF AccountCols
    <3>3. users'[accounts[a].owner] # NoUser /\ users'[accounts[a].owner].deleted
      BY <1>1, <3>1, GoneStays
    <3>4. accounts'[a] \in AccountCols
      <4>1. \A s \in Statuses : [accounts[a] EXCEPT !.status = s] \in AccountCols
        BY <3>1, ChangesKeepTypes
      <4>2. QED
        BY <1>4, <2>7, <4>1
    <3>5. QED
      BY <3>2, <3>3, <3>4
  <2>8. QED
    BY <1>1, <1>2, <2>2, <2>3, <2>4, <2>5, <2>6, <2>7 DEF AccountStep
<1>6. ASSUME NEW q \in Savers, pc'[q] = "save"
      PROVE  held'[q].row \in AccountCols /\ ~held'[q].row.deleted
  <2>1. q \in load.work /\ Op(q) \in SaverOps /\ Op(q) \in AccountOps \ UserOps
    BY DEF Savers, Jobs, SaverOps, AccountOps, UserOps
  <2>2. CASE Waits(q)
    BY <1>6, <2>2 DEF Waits, AccountsInv
  <2>3. CASE Checks(q)
    <3>1. accounts[A(q)] \in AccountCols /\ ~accounts[A(q)].deleted
      BY <1>3, <1>6, <2>1, <2>3 DEF Checks, GetAccountByID, AccountsInv
    <3>2. \A s \in Statuses : ~[accounts[A(q)] EXCEPT !.status = s].deleted
      BY <3>1 DEF AccountCols
    <3>3. ~Deposited(accounts[A(q)], 1).deleted
      BY <3>1 DEF AccountCols, Deposited
    <3>4. QED
      BY <1>6, <2>1, <2>3, <3>1, <3>2, <3>3, ChangesKeepTypes DEF Checks
  <2>4. QED
    BY <1>6, <2>1, <2>2, <2>3, AccountRequestsStep DEF Opens, SavesCopy, Hands, SaverOps
<1>7. ASSUME NEW d \in Deleters, pc'[d] \in {"sweep", "mark", "done"}
      PROVE  users'[Who(d)] # NoUser /\ users'[Who(d)].deleted
  <2>1. Who(d) \in Clients /\ Op(d) = "delete customer"
    BY <1>2, <1>3 DEF Deleters, Jobs
  <2>2. CASE pc[d] \in {"sweep", "mark", "done"}
    BY <1>1, <2>1, <2>2, GoneStays DEF AccountsInv
  <2>3. CASE GetByID(Who(d)) /\ DeleteUserRow(Who(d))
    <3>1. users[Who(d)] \in UserCols
      BY <2>1, <2>3 DEF UsersInv, GetByID
    <3>2. users'[Who(d)] = [users[Who(d)] EXCEPT !.deleted = TRUE]
      BY <2>1, <2>3 DEF DeleteUserRow, Update, UsersInv
    <3>3. users'[Who(d)].deleted /\ users'[Who(d)] \in UserCols
      BY <3>1, <3>2 DEF UserCols
    <3>4. QED
      BY <3>3, NoUserIsNoRow
  <2>4. QED
    BY <1>7, <2>1, <2>2, <2>3, DeletersStep DEF Waits, Sweeps, Marks, Checks
<1>8. accounts' \in [Accounts -> AccountCols \cup {NoAccount}]
  BY <1>1, <1>5
<1>9. \A q \in Savers' : pc'[q] = "save" => held'[q].row \in AccountCols /\ ~held'[q].row.deleted
  BY <1>2, <1>6
<1>10. \A d \in Deleters' : pc'[d] \in {"sweep", "mark", "done"} => Gone(Who(d))'
  BY <1>2, <1>7 DEF Gone, Who
<1>11. \A a \in Accounts : (accounts[a] # NoAccount /\ accounts[a].deleted => Gone(accounts[a].owner))'
  BY <1>5 DEF Gone
<1>12. QED
  BY <1>8, <1>9, <1>10, <1>11 DEF AccountsInv

-----------------------------------------------------------------------------
(* Requests that come after others. *)

LEMMA LaterStep ==
  ASSUME CallsInv, BackOfficeNext, NEW q \in load.work, NEW r \in before'[q]
  PROVE  /\ r \in load.work /\ HasEnded(r) /\ pc'[r] = pc[r] /\ held'[r] = held[r]
         /\ Called(q) => r \in before[q]
         /\ ~Called(q) => Called(q)'
<1>1. Goes(q) /\ CallsInv' /\ UNCHANGED load
  BY CallsStep
<1>2. before'[q] = before[q] \/ (before'[q] = Finished /\ ~Called(q) /\ Called(q)')
  <2>1. CASE Called(q) \/ Called(q)'
    BY <1>1, <2>1 DEF Goes
  <2>2. CASE ~Called(q)'
    BY <1>1, <2>2 DEF CallsInv, CallsInOrder
  <2>3. QED
    BY <2>1, <2>2
<1>3. r \in load.work /\ HasEnded(r)
  BY <1>2 DEF CallsInv, CallTypes, CallsInOrder, Finished
<1>4. Goes(r)
  BY <1>3, CallsStep
<1>5. ~Called(q) => before[q] = {}
  BY DEF CallsInv, CallsInOrder
<1>6. QED
  BY <1>2, <1>3, <1>4, <1>5 DEF Goes

LEMMA AloneStep ==
  ASSUME CallsInv, BackOfficeNext, NEW d \in load.work, Called(d), Alone(d)'
  PROVE  /\ Alone(d)
         /\ \A q \in Changers \ {d} : Called(q) /\ ~HasEnded(q) => HasEnded(d) /\ d \in before[q]
         /\ \A q \in Changers \ {d} : ~Called(q) /\ Called(q)' => HasEnded(d)
<1>1. UNCHANGED load /\ \A q \in load.work : Goes(q)
  BY CallsStep
<1>2. Changers' = Changers /\ Changers \subseteq load.work
  BY <1>1 DEF Changers, Jobs
<1>3. Called(d)' /\ before'[d] = before[d]
  BY <1>1 DEF Goes
<1>4. \A q \in before[d] : HasEnded(q)
  BY DEF CallsInv, CallsInOrder
<1>5. \A q \in Changers \ {d} : Called(q)' => q \in before[d] \/ d \in before'[q]
  BY <1>2, <1>3 DEF Alone, Overlap
<1>6. ASSUME NEW q \in Changers \ {d}, Called(q)
      PROVE  /\ ~Overlap(q, d)
             /\ ~HasEnded(q) => HasEnded(d) /\ d \in before[q]
  <2>1. Called(q)' /\ before'[q] = before[q]
    BY <1>1, <1>2, <1>6 DEF Goes
  <2>2. q \in before[d] \/ d \in before[q]
    BY <1>5, <2>1
  <2>3. d \in before[q] => HasEnded(d)
    BY <1>2 DEF CallsInv, CallsInOrder
  <2>4. QED
    BY <1>4, <2>2, <2>3 DEF Overlap
<1>7. ASSUME NEW q \in Changers \ {d}, ~Called(q), Called(q)' PROVE HasEnded(d)
  <2>1. q \notin before[d]
    BY <1>4, <1>7 DEF Called, HasEnded, Ended
  <2>2. before'[q] = Finished
    BY <1>1, <1>2, <1>7 DEF Goes
  <2>3. QED
    BY <1>5, <1>7, <2>1, <2>2 DEF Finished
<1>8. Alone(d)
  BY <1>6 DEF Alone, Overlap
<1>9. QED
  BY <1>6, <1>7, <1>8

LEMMA ProfilesStep ==
  ASSUME CallsInv, BackOfficeNext, NEW q \in Jobs({"profile"})
  PROVE  Waits(q) \/ (UNCHANGED held /\ (pc'[q] = "refused" \/ GetByID(Who(q))))
<1>1. q \in load.work /\ Op(q) = "profile" /\ pc = [r \in load.work |-> pc[r]]
  BY DEF Jobs, CallsInv, CallTypes
<1>2. CASE OnUsers(q)
  <2>1. GetCustomerProfile(q)
    BY <1>1, <1>2
       DEF OnUsers, Register, AddCustomer, CreateCustomer, GetMyProfile, GetProfileOf, UnlockUser, DeleteUser,
           UpdateMyEmail, UpdateMyPassword, ResetCustomerPassword, DeleteOwner, Runs, At,
           UpdateCustomerEmail, CheckNewEmail, FindForEmail, WriteEmail, CustomerUpdatePassword,
           AdminResetPassword, FindForPassword, WritePassword, Find
  <2>2. QED
    BY <1>1, <2>1 DEF GetCustomerProfile, Goto
<1>3. QED
  BY <1>1, <1>2, OwnStep, Families DEF Acts, ExternalOps, AccountOps

LEMMA RefreshesStep ==
  ASSUME CallsInv, BackOfficeNext, NEW q \in Jobs({"refresh"})
  PROVE  \/ Waits(q)
         \/ GetByTokenHash(q)
         \/ pc[q] \in {"revoke", "issue"} /\ held'[q] = held[q]
         \/ /\ pc[q] = "owner" /\ held'[q] = held[q]
            /\ pc'[q] = IF GetByID(held[q].id) THEN "revoke" ELSE "failed"
<1>1. q \in load.work /\ Op(q) = "refresh" /\ pc = [r \in load.work |-> pc[r]]
  BY DEF Jobs, CallsInv, CallTypes
<1>2. CASE OnSessions(q) /\ ~RequireAuth(q)
  <2>1. GetByTokenHash(q) \/ FindOwner(q) \/ RevokeOld(q) \/ GenerateTokens(q)
    BY <1>1, <1>2 DEF OnSessions, SessionStep, Login, LookUp, CountGuess, ForgetGuesses, Logout,
                      BlacklistToken, RevokeAll, RefreshToken, RefreshTokens, Arrives, At
  <2>2. QED
    BY <1>1, <2>1 DEF FindOwner, RevokeOld, GenerateTokens, Runs, At, Goto
<1>3. QED
  BY <1>1, <1>2, OwnStep, Families DEF Acts, ExternalOps, AccountOps, UserOps

-----------------------------------------------------------------------------
(* Deleted customers. *)

OwnedBy(u) == {a \in Accounts : accounts[a] # NoAccount /\ accounts[a].owner = u}

(* Requests called after the deletion d find no customer. *)
Shut(d) == \A q \in load.work : d \in before[q] =>
  /\ Op(q) = "login" => held[q].id # Who(d)
  /\ Op(q) = "refresh" /\ held[q].id = Who(d) => pc[q] \in {"owner", "refused", "failed"}
  /\ Op(q) \in {"open", "open for", "profile", "accounts"} /\ Who(q) = Who(d) =>
       pc[q] \in {"start", "refused", "failed"}
  /\ Op(q) = "register" => Who(q) # Who(d)
  /\ Op(q) = "move" /\ pc[q] = "own" => JobOf[q].to # Who(d)

(* No copy of an account of the customer of d is about to be saved. *)
NoCopies(d) == \A q \in Savers : d \in before[q] /\ pc[q] = "save" => held[q].row.owner # Who(d)

Poor(u) == \A a \in OwnedBy(u) : IsActive(a) => accounts[a].balance = 0

Emptied(d) ==
  /\ pc[d] = "delete" => TotalBalanceIsZero(Who(d))
  /\ pc[d] \in {"sweep", "mark", "done"} => Poor(Who(d))
  /\ pc[d] \in {"mark", "done"} => \A a \in OwnedBy(Who(d)) : accounts[a].deleted
  /\ pc[d] = "done" => NoCopies(d)

DeletionsInv == \A d \in Deleters : (pc[d] = "done" => Shut(d)) /\ (Alone(d) => Emptied(d))

(* While nobody else changes accounts, the customer of d is handed none,   *)
(* and gets no money.                                                      *)
LEMMA NothingGained ==
  ASSUME CallsInv, BackOfficeNext, AccountsInv, NEW d \in Deleters, Alone(d)',
         pc[d] \in {"delete", "sweep", "mark", "done"},
         pc[d] = "done" => Shut(d) /\ NoCopies(d),
         NEW a \in Accounts, accounts'[a] # NoAccount, accounts'[a].owner = Who(d)
  PROVE  /\ accounts[a] # NoAccount /\ accounts[a].owner = Who(d)
         /\ accounts[a].deleted => accounts'[a].deleted
         /\ accounts'[a].status = "active" =>
              accounts[a].status = "active" /\ accounts'[a].balance = accounts[a].balance
<1>1. d \in load.work /\ Called(d) /\ Op(d) = "delete customer" /\ (HasEnded(d) => pc[d] = "done")
  BY DEF Deleters, Jobs, Called, HasEnded, Ended
<1>2. AccountStep(a) /\ accounts[a] \in AccountCols \cup {NoAccount}
  BY EveryStepOnAccounts DEF AccountsInv
<1>3. ASSUME NEW r \in Changers \ {d}, Called(r), ~HasEnded(r)
      PROVE  r \in load.work /\ d \in before[r] /\ Shut(d) /\ NoCopies(d)
  BY <1>1, <1>3, AloneStep DEF Changers, Jobs
<1>4. ASSUME NEW r \in Openers, Called(r), ~HasEnded(r), Op(r) # "register" => pc[r] = "insert"
      PROVE  Who(r) # Who(d)
  <2>1. r \in Changers \ {d} /\ Op(r) \in {"register", "open", "open for"}
    BY <1>1, <1>4 DEF Openers, Changers, Jobs
  <2>2. QED
    BY <1>3, <1>4, <2>1 DEF Shut
<1>5. ASSUME NEW r \in Openers, NEW type \in Types, NEW n \in Nat, Called(r), ~HasEnded(r),
             Op(r) # "register" => pc[r] = "insert", accounts'[a] = NewAccount(Who(r), type, n)
      PROVE  FALSE
  BY <1>4, <1>5 DEF NewAccount
<1>6. ASSUME NEW r \in Savers, pc[r] = "save", accounts'[a] = held[r].row
      PROVE  FALSE
  <2>1. r \in Changers \ {d} /\ Called(r) /\ ~HasEnded(r)
    BY <1>1, <1>6 DEF Savers, SaverOps, Changers, Jobs, Called, HasEnded, Ended
  <2>2. QED
    BY <1>3, <1>6, <2>1 DEF NoCopies
<1>7. ASSUME NEW r \in Movers, pc[r] = "own", GetAccountByID(a),
             accounts'[a] = [accounts[a] EXCEPT !.owner = JobOf[r].to]
      PROVE  FALSE
  <2>1. r \in Changers \ {d} /\ Called(r) /\ ~HasEnded(r) /\ Op(r) = "move"
    BY <1>1, <1>7 DEF Movers, Changers, Jobs, Called, HasEnded, Ended
  <2>2. JobOf[r].to # Who(d)
    BY <1>3, <1>7, <2>1 DEF Shut
  <2>3. accounts'[a].owner = JobOf[r].to
    BY <1>2, <1>7 DEF AccountCols, GetAccountByID
  <2>4. QED
    BY <2>2, <2>3
<1>8. ASSUME GetAccountByID(a), accounts'[a] = [accounts[a] EXCEPT !.deleted = TRUE]
      PROVE  /\ accounts[a] # NoAccount /\ accounts[a].owner = accounts'[a].owner
             /\ accounts'[a].deleted /\ accounts'[a].status = accounts[a].status
             /\ accounts'[a].balance = accounts[a].balance
  BY <1>2, <1>8 DEF AccountCols, GetAccountByID
<1>9. ASSUME accounts[a] # NoAccount, accounts'[a] = [accounts[a] EXCEPT !.status = "inactive"]
      PROVE  /\ accounts[a].owner = accounts'[a].owner
             /\ accounts'[a].deleted = accounts[a].deleted /\ accounts'[a].status # "active"
  BY <1>2, <1>9 DEF AccountCols
<1>10. CASE accounts'[a] = accounts[a]
  BY <1>10
<1>11. QED
  BY <1>2, <1>5, <1>6, <1>7, <1>8, <1>9, <1>10 DEF AccountStep, GetByUserID

LEMMA ShutStep ==
  ASSUME CallsInv, BackOfficeNext, UsersInv, AccountsInv, NEW d \in Deleters, pc[d] = "done", Shut(d)
  PROVE  Shut(d)'
<1>1. UNCHANGED load /\ load.work \subseteq Requests /\ pc = [r \in load.work |-> pc[r]]
  BY CallsStep, CallAssumption DEF CallsInv, CallTypes
<1>2. Who(d) \in Clients /\ d \in load.work /\ Gone(Who(d))
  BY <1>1, UserAssumption DEF Deleters, Jobs, AccountsInv
<1>3. ~GetByID(Who(d)) /\ users[Who(d)] # NoUser
  BY <1>2 DEF Gone, GetByID
<1> SUFFICES ASSUME NEW q \in load.work, d \in before'[q]
             PROVE  /\ Op(q) = "login" => held'[q].id # Who(d)
                    /\ Op(q) = "refresh" /\ held'[q].id = Who(d) => pc'[q] \in {"owner", "refused", "failed"}
                    /\ Op(q) \in {"open", "open for", "profile", "accounts"} /\ Who(q) = Who(d) =>
                         pc'[q] \in {"start", "refused", "failed"}
                    /\ Op(q) = "register" => Who(q) # Who(d)
                    /\ Op(q) = "move" /\ pc'[q] = "own" => JobOf[q].to # Who(d)
  BY <1>1 DEF Shut, Who, Op
<1>4. (Called(q) => d \in before[q]) /\ (~Called(q) => Called(q)' /\ held[q] = Nothing)
  BY LaterStep DEF CallsInv, CallsInOrder
<1>5. ~Called(q) => pc[q] = "new" /\ held[q].id # Who(d)
  BY <1>2, <1>4, UserAssumption DEF Called, Nothing
<1>6. ASSUME Op(q) = "login" PROVE held'[q].id # Who(d)
  <2>1. held[q].id # Who(d)
    BY <1>4, <1>5, <1>6 DEF Shut
  <2>2. held'[q] = held[q] \/ \E u \in GetByEmail(JobOf[q].email) : held'[q].id = u
    <3>1. CASE LookUp(q)
      <4>1. \/ held'[q] = held[q]
            \/ \E u \in GetByEmail(JobOf[q].email) :
                 \/ held'[q] = Copy(u, ResetFailedAttempts(users[u]))
                 \/ held'[q] = Copy(u, IncrementFailedAttempts(users[u]))
        BY <3>1, LookUpReads
      <4>2. \A u, row : Copy(u, row).id = u
        BY DEF Copy
      <4>3. QED
        BY <4>1, <4>2
    <3>2. QED
      BY <1>6, <3>1, LoginsReadOnce DEF Jobs
  <2>3. Who(d) \notin GetByEmail(JobOf[q].email)
    BY <1>3 DEF GetByEmail
  <2>4. QED
    BY <2>1, <2>2, <2>3
<1>7. ASSUME Op(q) = "refresh", held'[q].id = Who(d) PROVE pc'[q] \in {"owner", "refused", "failed"}
  <2>1. q \in Jobs({"refresh"})
    BY <1>7 DEF Jobs
  <2>2. CASE GetByTokenHash(q)
    <3>1. pc'[q] \in {"owner", "refused"}
      BY <1>1, <2>2 DEF GetByTokenHash, Goto, Read
    <3>2. QED
      BY <3>1
  <2>3. CASE held'[q] = held[q]
    <3>1. Called(q) /\ pc[q] \in {"owner", "refused", "failed"}
      BY <1>4, <1>5, <1>7, <2>3 DEF Shut
    <3>2. CASE pc'[q] = pc[q] \/ pc'[q] \in {"refused", "failed"}
      BY <3>1, <3>2
    <3>3. CASE pc'[q] = IF GetByID(held[q].id) THEN "revoke" ELSE "failed"
      BY <1>3, <1>7, <2>3, <3>3
    <3>4. QED
      BY <2>1, <2>3, <3>1, <3>2, <3>3, RefreshesStep DEF Waits, GetByTokenHash, Arrives, Called
  <2>4. QED
    BY <2>1, <2>2, <2>3, RefreshesStep DEF Waits
<1>8. ASSUME Op(q) \in {"open", "open for", "profile", "accounts"}, Who(q) = Who(d)
      PROVE  pc'[q] \in {"start", "refused", "failed"}
  <2>1. pc[q] \in {"new", "start", "refused", "failed"}
    BY <1>4, <1>5, <1>8 DEF Shut
  <2>2. CASE Waits(q)
    BY <1>4, <2>1, <2>2 DEF Waits, Called
  <2>3. CASE Op(q) = "profile"
    BY <1>3, <1>8, <2>2, <2>3, ProfilesStep DEF Jobs
  <2>4. CASE Op(q) # "profile" /\ ~Waits(q)
    <3>1. Op(q) \in AccountOps \ UserOps
      BY <1>8, <2>4 DEF AccountOps, UserOps
    <3>2. Opens(q) \/ SavesCopy(q) \/ Hands(q) \/ Checks(q)
      BY <2>4, <3>1, AccountRequestsStep
    <3>3. Checks(q)
      BY <1>8, <2>1, <3>2 DEF Opens, SavesCopy, Hands, SaverOps
    <3>4. QED
      BY <1>3, <1>8, <2>1, <2>4, <3>3 DEF Checks
  <2>5. QED
    BY <2>2, <2>3, <2>4
<1>9. ASSUME Op(q) = "register" PROVE Who(q) # Who(d)
  <2>1. CASE Called(q)
    BY <1>4, <1>9, <2>1 DEF Shut
  <2>2. CASE ~Called(q)
    <3>1. q \in Newcomers
      BY <1>9 DEF Newcomers, Jobs
    <3>2. users[Who(q)] = NoUser
      BY <1>5, <2>2, <3>1 DEF UsersInv
    <3>3. QED
      BY <1>3, <3>2
  <2>3. QED
    BY <2>1, <2>2
<1>10. ASSUME Op(q) = "move", pc'[q] = "own" PROVE JobOf[q].to # Who(d)
  <2>1. CASE Waits(q)
    BY <1>4, <1>5, <1>10, <2>1 DEF Waits, Shut, Called
  <2>2. CASE Checks(q)
    BY <1>3, <1>10, <2>2 DEF Checks
  <2>3. Op(q) \in AccountOps \ UserOps
    BY <1>10 DEF AccountOps, UserOps
  <2>4. QED
    BY <1>10, <2>1, <2>2, <2>3, AccountRequestsStep DEF Opens, SavesCopy, Hands, SaverOps
<1>11. QED
  BY <1>6, <1>7, <1>8, <1>9, <1>10

LEMMA EmptiedStep ==
  ASSUME CallsInv, BackOfficeNext, UsersInv, AccountsInv, NEW d \in Deleters, Alone(d)',
         Alone(d) => Emptied(d), pc[d] = "done" => Shut(d)
  PROVE  Emptied(d)'
<1>1. UNCHANGED load /\ d \in load.work /\ Op(d) = "delete customer" /\ Goes(d)
      /\ load.work \subseteq Requests
  BY CallsStep, CallAssumption DEF Deleters, Jobs, CallsInv, CallTypes
<1>2. Who(d) \in Clients /\ Savers' = Savers /\ Savers \subseteq load.work
  BY <1>1, UserAssumption DEF Savers, Jobs
<1>3. Called(d) => Emptied(d)
  BY <1>1, AloneStep
<1>4. pc[d] \in {"delete", "sweep", "mark", "done"} =>
        Emptied(d) /\ (pc[d] = "done" => Shut(d) /\ NoCopies(d))
  BY <1>3 DEF Called, Emptied
<1>5. ASSUME pc[d] \in {"delete", "sweep", "mark", "done"},
             NEW a \in Accounts, accounts'[a] # NoAccount, accounts'[a].owner = Who(d)
      PROVE  /\ accounts[a] # NoAccount /\ accounts[a].owner = Who(d)
             /\ accounts[a].deleted => accounts'[a].deleted
             /\ accounts'[a].status = "active" =>
                  accounts[a].status = "active" /\ accounts'[a].balance = accounts[a].balance
  BY <1>4, <1>5, NothingGained
<1>6. ASSUME pc'[d] = "delete" PROVE TotalBalanceIsZero(Who(d))'
  <2>1. CASE pc[d] = "delete"
    <3>1. TotalBalanceIsZero(Who(d))
      BY <1>4, <2>1 DEF Emptied
    <3>2. ASSUME NEW a \in Accounts, accounts'[a] # NoAccount, ~accounts'[a].deleted,
                 accounts'[a].owner = Who(d), accounts'[a].status = "active"
          PROVE  accounts'[a].balance = 0
      <4>1. /\ accounts[a] # NoAccount /\ accounts[a].owner = Who(d) /\ accounts[a].status = "active"
            /\ accounts'[a].balance = accounts[a].balance /\ (accounts[a].deleted => accounts'[a].deleted)
        BY <1>5, <2>1, <3>2
      <4>2. accounts[a] \in AccountCols
        BY <4>1 DEF AccountsInv
      <4>3. ~accounts[a].deleted
        BY <3>2, <4>1
      <4>4. QED
        BY <3>1, <4>1, <4>3 DEF TotalBalanceIsZero, GetByUserID, GetAccountByID, IsActive
    <3>3. QED
      BY <3>2 DEF TotalBalanceIsZero, GetByUserID, GetAccountByID, IsActive, Who
  <2>2. CASE Checks(d)
    <3>1. TotalBalanceIsZero(Who(d)) /\ UNCHANGED accounts
      BY <1>1, <1>6, <2>2 DEF Checks
    <3>2. QED
      BY <3>1 DEF TotalBalanceIsZero, GetByUserID, GetAccountByID, IsActive, Who
  <2>3. QED
    BY <1>6, <2>1, <2>2, DeletersStep DEF Waits, Sweeps, Marks
<1>7. ASSUME pc'[d] \in {"sweep", "mark", "done"}
      PROVE  pc[d] \in {"sweep", "mark", "done"} \/ (pc[d] = "delete" /\ GetByID(Who(d)) /\ pc'[d] = "sweep")
  BY <1>1, <1>7, DeletersStep DEF Waits, Sweeps, Marks, Checks
<1>8. ASSUME pc'[d] \in {"sweep", "mark", "done"} PROVE Poor(Who(d))'
  <2>1. Poor(Who(d))
    <3>1. CASE pc[d] \in {"sweep", "mark", "done"}
      BY <1>4, <3>1 DEF Emptied
    <3>2. CASE pc[d] = "delete" /\ GetByID(Who(d))
      <4>1. TotalBalanceIsZero(Who(d))
        BY <1>4, <3>2 DEF Emptied
      <4>2. \A a \in OwnedBy(Who(d)) : ~accounts[a].deleted
        BY <3>2 DEF OwnedBy, AccountsInv, Gone, GetByID
      <4>3. QED
        BY <4>1, <4>2 DEF Poor, OwnedBy, TotalBalanceIsZero, GetByUserID, GetAccountByID
    <3>3. QED
      BY <1>7, <1>8, <3>1, <3>2
  <2>2. ASSUME NEW a \in Accounts, accounts'[a] # NoAccount, accounts'[a].owner = Who(d),
               accounts'[a].status = "active"
        PROVE  accounts'[a].balance = 0
    <3>1. /\ accounts[a] # NoAccount /\ accounts[a].owner = Who(d) /\ accounts[a].status = "active"
          /\ accounts'[a].balance = accounts[a].balance
      BY <1>5, <1>7, <1>8, <2>2
    <3>2. QED
      BY <2>1, <3>1 DEF Poor, OwnedBy, IsActive
  <2>3. QED
    BY <2>2 DEF Poor, OwnedBy, IsActive, Who
<1>9. ASSUME pc'[d] \in {"mark", "done"}, NEW a \in Accounts, accounts'[a] # NoAccount,
             accounts'[a].owner = Who(d)
      PROVE  accounts'[a].deleted
  <2>1. pc[d] \in {"sweep", "mark", "done"}
    BY <1>7, <1>9
  <2>2. accounts[a] # NoAccount /\ accounts[a].owner = Who(d) /\ (accounts[a].deleted => accounts'[a].deleted)
    BY <1>5, <1>9, <2>1
  <2>3. CASE pc[d] \in {"mark", "done"}
    BY <1>4, <2>2, <2>3 DEF Emptied, OwnedBy
  <2>4. CASE pc[d] = "sweep"
    <3>1. Sweeps(d)
      BY <1>1, <1>9, <2>4, DeletersStep DEF Waits, Marks, Checks
    <3>2. CASE a \in GetByUserID(Who(d))
      <4>1. accounts'[a] = [accounts[a] EXCEPT !.deleted = TRUE] /\ accounts[a] \in AccountCols
        BY <2>2, <3>1, <3>2 DEF Sweeps, SoftDelete, AccountsInv
      <4>2. QED
        BY <4>1 DEF AccountCols
    <3>3. CASE a \notin GetByUserID(Who(d))
      BY <2>2, <3>3 DEF GetByUserID, GetAccountByID
    <3>4. QED
      BY <3>2, <3>3
  <2>5. QED
    BY <2>1, <2>3, <2>4
<1>10. ASSUME pc'[d] = "done", NEW q \in Savers, d \in before'[q], pc'[q] = "save"
       PROVE  held'[q].row.owner # Who(d)
  <2>1. pc[d] = "done" /\ (Called(q) => d \in before[q])
    BY <1>2, <1>10, LaterStep
  <2>2. Emptied(d)
    BY <1>4, <2>1
  <2>3. Op(q) \in SaverOps /\ Op(q) \in AccountOps \ UserOps /\ q \in load.work
    BY DEF Savers, Jobs, SaverOps, AccountOps, UserOps
  <2>4. CASE Waits(q)
    BY <1>10, <2>1, <2>2, <2>4 DEF Waits, Called, Emptied, NoCopies
  <2>5. CASE Checks(q)
    <3>1. accounts[A(q)] # NoAccount /\ ~accounts[A(q)].deleted /\ A(q) \in Accounts
      BY <1>1, <1>10, <2>3, <2>5, CustomerAssumption DEF Checks, GetAccountByID, A, JobOf
    <3>2. accounts[A(q)] \in AccountCols /\ accounts[A(q)].owner # Who(d)
      BY <2>1, <2>2, <3>1 DEF AccountsInv, Emptied, OwnedBy
    <3>3. \A s \in Statuses : [accounts[A(q)] EXCEPT !.status = s].owner = accounts[A(q)].owner
      BY <3>2 DEF AccountCols
    <3>4. Deposited(accounts[A(q)], 1).owner = accounts[A(q)].owner
      BY <3>2 DEF AccountCols, Deposited
    <3>5. QED
      BY <1>10, <2>3, <2>5, <3>2, <3>3, <3>4 DEF Checks
  <2>6. QED
    BY <1>10, <2>3, <2>4, <2>5, AccountRequestsStep DEF Opens, SavesCopy, Hands, SaverOps
<1>11. (pc[d] = "done" => NoCopies(d))'
  BY <1>2, <1>10 DEF NoCopies, Who
<1>12. (pc[d] \in {"mark", "done"} => \A a \in OwnedBy(Who(d)) : accounts[a].deleted)'
  BY <1>9 DEF OwnedBy, Who
<1>13. QED
  BY <1>6, <1>8, <1>11, <1>12 DEF Emptied

LEMMA DeletionsStep ==
  ASSUME CallsInv, BackOfficeNext, UsersInv, AccountsInv, DeletionsInv
  PROVE  DeletionsInv'
<1>1. Deleters' = Deleters /\ Deleters \subseteq load.work /\ UNCHANGED load
  BY CallsStep DEF Deleters, Jobs
<1>2. ASSUME NEW d \in Deleters, pc'[d] = "done" PROVE Shut(d)'
  <2>1. CASE pc[d] = "done"
    BY <2>1, ShutStep DEF DeletionsInv
  <2>2. CASE pc[d] # "done"
    <3>1. \A q \in load.work : d \notin before'[q]
      BY <1>2, <2>2, LaterStep
    <3>2. QED
      BY <1>1, <3>1 DEF Shut
  <2>3. QED
    BY <2>1, <2>2
<1>3. ASSUME NEW d \in Deleters, Alone(d)' PROVE Emptied(d)'
  BY <1>3, EmptiedStep DEF DeletionsInv
<1>4. QED
  BY <1>1, <1>2, <1>3 DEF DeletionsInv

-----------------------------------------------------------------------------
(* One account of a type. *)

Opening == Jobs({"open"})

(* A request called after r opens account a, or moves it. *)
Touched(r, a) == \E q \in Jobs({"open", "open for", "move"}) : r \in before[q] /\ A(q) = a

Same(r, row) == row.owner = Who(r) /\ row.type = JobOf[r].type

(* The account that r opens is the only one of its type. *)
Only(r) ==
  /\ pc[r] = "insert" => \A a \in Accounts : Open(a) => ~Same(r, accounts[a])
  /\ pc[r] = "done" => \A a \in Accounts : ~Touched(r, a) =>
       /\ a = A(r) => accounts[a] # NoAccount /\ Same(r, accounts[a])
       /\ a # A(r) /\ Open(a) => ~Same(r, accounts[a])
       /\ \A q \in Savers : r \in before[q] /\ pc[q] = "save" /\ A(q) = a =>
            (Same(r, held[q].row) <=> a = A(r))

OpenInv == \A r \in Opening :
  /\ pc[r] \in {"exists", "insert", "done"} => users[Who(r)] # NoUser
  /\ pc[r] = "done" => \A q \in Jobs({"register"}) : r \in before[q] => Who(q) # Who(r)
  /\ Alone(r) => Only(r)

LEMMA OpeningStep ==
  ASSUME CallsInv, BackOfficeNext, NEW r \in Opening
  PROVE  Waits(r) \/ Opens(r) \/ Checks(r)
<1>1. r \in load.work /\ Op(r) = "open" /\ Op(r) \in AccountOps \ UserOps
  BY DEF Opening, Jobs, AccountOps, UserOps
<1>2. QED
  BY <1>1, AccountRequestsStep DEF SavesCopy, Hands, SaverOps

(* What a step does to the row of an account while r is under way alone,   *)
(* or after it, but for the accounts that r inserts.                       *)
LEMMA OthersStep ==
  ASSUME CallsInv, BackOfficeNext, AccountsInv, OpenInv, NEW r \in Opening, Alone(r)',
         pc[r] \in {"insert", "done"}, pc'[r] = pc[r], NEW a \in Accounts, ~Touched(r, a)
  PROVE  \/ accounts'[a] = accounts[a]
         \/ /\ pc[r] = "done" /\ a # A(r) /\ accounts'[a].owner # Who(r)
         \/ \E q \in Savers : /\ a = A(q) /\ pc[q] = "save" /\ accounts'[a] = held[q].row
                              /\ r \in before[q] /\ pc[r] = "done"
         \/ /\ accounts[a] # NoAccount /\ accounts'[a] # NoAccount /\ accounts'[a].deleted
            /\ accounts'[a].owner = accounts[a].owner /\ accounts'[a].type = accounts[a].type
<1>1. /\ r \in load.work /\ Called(r) /\ Op(r) = "open" /\ (HasEnded(r) <=> pc[r] = "done")
      /\ load.work \subseteq Requests
  BY CallAssumption DEF Opening, Jobs, Called, HasEnded, Ended, CallsInv, CallTypes
<1>2. AccountStep(a) /\ accounts[a] \in AccountCols \cup {NoAccount}
  BY EveryStepOnAccounts DEF AccountsInv
<1>3. ASSUME NEW q \in Changers \ {r}, Called(q), ~HasEnded(q)
      PROVE  q \in load.work /\ r \in before[q] /\ pc[r] = "done"
  BY <1>1, <1>3, AloneStep DEF Changers, Jobs
<1>4. ASSUME NEW q \in Openers, NEW type \in Types, NEW n \in Nat,
             Called(q), ~HasEnded(q), a \in Opened(q),
             Op(q) # "register" => pc[q] = "insert" /\ pc'[q] = "done",
             accounts'[a] = NewAccount(Who(q), type, n)
      PROVE  pc[r] = "done" /\ a # A(r) /\ accounts'[a].owner # Who(r)
  <2>1. q \in load.work /\ q \in Changers /\ Op(q) \in {"register", "open", "open for"} /\ q \in Requests
    BY <1>1 DEF Openers, Changers, Jobs
  <2>2. q # r
    BY <1>1, <1>4
  <2>3. r \in before[q] /\ pc[r] = "done"
    BY <1>3, <1>4, <2>1, <2>2
  <2>4. Op(q) = "register"
    <3>1. ASSUME Op(q) # "register" PROVE FALSE
      <4>1. a = A(q) /\ q \in Jobs({"open", "open for", "move"})
        BY <1>4, <2>1, <3>1 DEF Opened, A, Jobs
      <4>2. QED
        BY <2>3, <4>1 DEF Touched
    <3>2. QED
      BY <3>1
  <2>5. Who(q) # Who(r)
    BY <2>1, <2>3, <2>4 DEF OpenInv, Jobs
  <2>6. Opened(q) \cap Opened(r) = {} /\ Opened(r) = {A(r)}
    BY <1>1, <2>1, <2>2, CustomerAssumption DEF Opened, A
  <2>7. QED
    BY <1>4, <2>3, <2>5, <2>6 DEF NewAccount
<1>5. ASSUME NEW q \in Savers, pc[q] = "save" PROVE r \in before[q] /\ pc[r] = "done"
  <2>1. q \in Changers \ {r} /\ Called(q) /\ ~HasEnded(q)
    BY <1>1, <1>5 DEF Savers, SaverOps, Changers, Jobs, Called, HasEnded, Ended
  <2>2. QED
    BY <1>3, <2>1
<1>6. ASSUME NEW q \in Movers, a = A(q), pc[q] = "own" PROVE FALSE
  <2>1. /\ q \in Changers \ {r} /\ Called(q) /\ ~HasEnded(q)
        /\ q \in Jobs({"open", "open for", "move"})
    BY <1>1, <1>6 DEF Movers, Changers, Jobs, Called, HasEnded, Ended
  <2>2. QED
    BY <1>3, <1>6, <2>1 DEF Touched
<1>7. ASSUME GetAccountByID(a), accounts'[a] = [accounts[a] EXCEPT !.deleted = TRUE]
      PROVE  /\ accounts[a] # NoAccount /\ accounts'[a] \in AccountCols /\ accounts'[a].deleted
             /\ accounts'[a].owner = accounts[a].owner /\ accounts'[a].type = accounts[a].type
  BY <1>2, <1>7 DEF AccountCols, GetAccountByID
<1>8. ASSUME accounts[a] # NoAccount, accounts[a].deleted,
             accounts'[a] = [accounts[a] EXCEPT !.status = "inactive"]
      PROVE  /\ accounts'[a] \in AccountCols /\ accounts'[a].deleted
             /\ accounts'[a].owner = accounts[a].owner /\ accounts'[a].type = accounts[a].type
  BY <1>2, <1>8 DEF AccountCols, Statuses
<1>9. CASE accounts'[a] = accounts[a]
  BY <1>9
<1>10. CASE \/ \E d \in Deleters : /\ pc[d] = "sweep" /\ a \in GetByUserID(Who(d))
                                   /\ accounts'[a] = [accounts[a] EXCEPT !.deleted = TRUE]
            \/ \E d \in Deleters : /\ pc[d] = "mark" /\ accounts[a] # NoAccount /\ accounts[a].deleted
                                   /\ accounts'[a] = [accounts[a] EXCEPT !.status = "inactive"]
  BY <1>7, <1>8, <1>10, NoAccountIsNoRow DEF GetByUserID
<1>11. CASE \E q \in Savers : a = A(q) /\ pc[q] = "save" /\ accounts'[a] = held[q].row
  BY <1>5, <1>11
<1>12. QED
  BY <1>2, <1>4, <1>6, <1>9, <1>10, <1>11 DEF AccountStep

LEMMA OnlyStep ==
  ASSUME CallsInv, BackOfficeNext, AccountsInv, OpenInv, NEW r \in Opening, Alone(r)'
  PROVE  Only(r)'
<1>1. /\ UNCHANGED load /\ r \in load.work /\ Op(r) = "open" /\ Goes(r)
      /\ load.work \subseteq Requests
  BY CallsStep, CallAssumption DEF Opening, Jobs, CallsInv, CallTypes
<1>2. /\ Savers' = Savers /\ Savers \subseteq load.work /\ A(r) \in Accounts
      /\ \A q : A(q)' = A(q) /\ \A row : Same(q, row)' = Same(q, row)
  BY <1>1, CustomerAssumption DEF Savers, Jobs, A, Same, Who, JobOf
<1>3. Called(r) => Only(r)
  BY <1>1, AloneStep DEF OpenInv
<1>4. \A a : Touched(r, a) => Touched(r, a)'
  <2>1. ASSUME NEW q \in load.work, r \in before[q] PROVE r \in before'[q]
    <3>1. Called(q) /\ Goes(q)
      BY <2>1, CallsStep DEF CallsInv, CallsInOrder
    <3>2. QED
      BY <2>1, <3>1 DEF Goes
  <2>2. QED
    BY <1>1, <2>1 DEF Touched, Jobs, A
<1>5. ASSUME pc'[r] = "insert", NEW a \in Accounts, accounts'[a] # NoAccount, ~accounts'[a].deleted,
             accounts'[a].status # "closed"
      PROVE  ~Same(r, accounts'[a])
  <2>1. CASE pc[r] = "insert"
    <3>1. Only(r)
      BY <1>3, <2>1 DEF Called
    <3>2. ~Touched(r, a)
      BY <2>1 DEF Touched, Jobs, CallsInv, CallsInOrder, HasEnded, Ended
    <3>3. accounts'[a] = accounts[a]
      BY <1>5, <2>1, <3>2, OthersStep
    <3>4. QED
      BY <1>5, <2>1, <3>1, <3>3 DEF Only, Open, GetAccountByID
  <2>2. CASE Checks(r)
    <3>1. ~ExistsForUser(Who(r), JobOf[r].type) /\ UNCHANGED accounts
      BY <1>1, <1>5, <2>2 DEF Checks
    <3>2. QED
      BY <1>5, <3>1 DEF ExistsForUser, GetByUserID, GetAccountByID, Same
  <2>3. QED
    BY <1>1, <1>5, <2>1, <2>2, OpeningStep DEF Waits, Opens
<1>6. ASSUME pc'[r] = "done", pc[r] # "done", NEW a \in Accounts
      PROVE  /\ a = A(r) => accounts'[a] # NoAccount /\ Same(r, accounts'[a])
             /\ a # A(r) /\ accounts'[a] # NoAccount /\ ~accounts'[a].deleted
                /\ accounts'[a].status # "closed" => ~Same(r, accounts'[a])
  <2>1. Opens(r)
    BY <1>1, <1>6, OpeningStep DEF Waits, Checks
  <2>2. pc[r] = "insert" /\ Only(r)
    BY <1>1, <1>3, <2>1 DEF Opens, Called
  <2>3. Opened(r) = {A(r)}
    BY <1>1 DEF Opened, A
  <2>4. PICK n \in Nat : accounts' = [accounts EXCEPT ![A(r)] = NewAccount(Who(r), JobOf[r].type, n)]
    BY <1>1, <2>1, <2>3 DEF Opens
  <2>5. CASE a = A(r)
    <3>1. accounts'[a] = NewAccount(Who(r), JobOf[r].type, n)
      BY <2>4, <2>5 DEF AccountsInv
    <3>2. NewAccount(Who(r), JobOf[r].type, n) # NoAccount
      <4>1. NewAccount(Who(r), JobOf[r].type, n) \in AccountCols
        BY <1>1, UserAssumption, CustomerAssumption DEF NewAccount, AccountCols, Statuses, JobOf
      <4>2. QED
        BY <4>1, NoAccountIsNoRow
    <3>3. QED
      BY <2>5, <3>1, <3>2 DEF Same, NewAccount
  <2>6. CASE a # A(r)
    <3>1. accounts'[a] = accounts[a]
      BY <2>4, <2>6 DEF AccountsInv
    <3>2. QED
      BY <2>2, <2>6, <3>1 DEF Only, Open, GetAccountByID
  <2>7. QED
    BY <2>5, <2>6
<1>7. ASSUME pc'[r] = "done", pc[r] = "done", NEW a \in Accounts, ~Touched(r, a)
      PROVE  /\ a = A(r) => accounts'[a] # NoAccount /\ Same(r, accounts'[a])
             /\ a # A(r) /\ accounts'[a] # NoAccount /\ ~accounts'[a].deleted
                /\ accounts'[a].status # "closed" => ~Same(r, accounts'[a])
  <2>1. Only(r)
    BY <1>3, <1>7 DEF Called
  <2>2. CASE accounts'[a] = accounts[a]
    BY <1>7, <2>1, <2>2 DEF Only, Open, GetAccountByID
  <2>3. CASE a # A(r) /\ accounts'[a].owner # Who(r)
    BY <2>3 DEF Same
  <2>4. ASSUME NEW q \in Savers, a = A(q), pc[q] = "save", accounts'[a] = held[q].row, r \in before[q]
        PROVE  accounts'[a] # NoAccount /\ (Same(r, accounts'[a]) <=> a = A(r))
    BY <1>7, <2>1, <2>4, NoAccountIsNoRow DEF Only, AccountsInv
  <2>5. CASE /\ accounts[a] # NoAccount /\ accounts'[a] # NoAccount /\ accounts'[a].deleted
             /\ accounts'[a].owner = accounts[a].owner /\ accounts'[a].type = accounts[a].type
    BY <1>7, <2>1, <2>5 DEF Only, Same
  <2>6. QED
    BY <1>7, <2>2, <2>3, <2>4, <2>5, OthersStep
<1>8. ASSUME pc'[r] = "done", NEW q \in Savers, ~Touched(r, A(q)), r \in before'[q], pc'[q] = "save"
      PROVE  Same(r, held'[q].row) <=> A(q) = A(r)
  <2>1. /\ pc[r] = "done" /\ (Called(q) => r \in before[q]) /\ q \in load.work
    BY <1>2, <1>8, LaterStep
  <2>2. Only(r) /\ A(q) \in Accounts
    BY <1>1, <1>3, <2>1, CustomerAssumption DEF Called, A, JobOf
  <2>3. Op(q) \in SaverOps /\ Op(q) \in AccountOps \ UserOps
    BY DEF Savers, Jobs, SaverOps, AccountOps, UserOps
  <2>4. CASE Waits(q)
    BY <1>8, <2>1, <2>2, <2>4 DEF Waits, Called, Only
  <2>5. CASE Checks(q)
    <3>1. Open(A(q))
      BY <1>8, <2>3, <2>5 DEF Checks, Open
    <3>2. accounts[A(q)] \in AccountCols
      BY <2>2, <3>1 DEF AccountsInv, Open, GetAccountByID
    <3>3. Same(r, accounts[A(q)]) <=> A(q) = A(r)
      BY <1>8, <2>1, <2>2, <3>1 DEF Only
    <3>4. \A s \in Statuses : Same(r, [accounts[A(q)] EXCEPT !.status = s]) <=> Same(r, accounts[A(q)])
      BY <3>2 DEF AccountCols, Same
    <3>5. Same(r, Deposited(accounts[A(q)], 1)) <=> Same(r, accounts[A(q)])
      BY <3>2 DEF AccountCols, Same, Deposited
    <3>6. QED
      BY <1>8, <2>3, <2>5, <3>3, <3>4, <3>5 DEF Checks
  <2>6. QED
    BY <1>8, <2>1, <2>3, <2>4, <2>5, AccountRequestsStep DEF Opens, SavesCopy, Hands, SaverOps
<1>9. (pc[r] = "insert" => \A a \in Accounts : Open(a) => ~Same(r, accounts[a]))'
  BY <1>2, <1>5 DEF Open, GetAccountByID
<1>10. (pc[r] = "done" => \A a \in Accounts : ~Touched(r, a) =>
          /\ a = A(r) => accounts[a] # NoAccount /\ Same(r, accounts[a])
          /\ a # A(r) /\ Open(a) => ~Same(r, accounts[a]))'
  BY <1>2, <1>4, <1>6, <1>7 DEF Open, GetAccountByID
<1>11. (pc[r] = "done" => \A a \in Accounts : ~Touched(r, a) =>
          \A q \in Savers : r \in before[q] /\ pc[q] = "save" /\ A(q) = a =>
            (Same(r, held[q].row) <=> a = A(r)))'
  BY <1>2, <1>4, <1>8
<1>12. QED
  BY <1>9, <1>10, <1>11 DEF Only

LEMMA OpenStep ==
  ASSUME CallsInv, BackOfficeNext, UsersInv, AccountsInv, OpenInv
  PROVE  OpenInv'
<1>1. /\ UNCHANGED load /\ Opening' = Opening /\ Opening \subseteq load.work
      /\ Jobs({"register"})' = Jobs({"register"}) /\ Jobs({"register"}) \subseteq load.work
      /\ load.work \subseteq Requests /\ UsersStep
  BY CallsStep, CallAssumption, EveryStepOnUsers DEF Opening, Jobs, CallsInv, CallTypes
<1>2. \A u \in Clients : users[u] # NoUser => users'[u] # NoUser
  BY <1>1, NoUserIsNoRow DEF UsersStep, RowStep
<1>3. ASSUME NEW r \in Opening, pc'[r] \in {"exists", "insert", "done"} PROVE users'[Who(r)] # NoUser
  <2>1. Who(r) \in Clients /\ Op(r) = "open"
    BY <1>1, UserAssumption DEF Opening, Jobs
  <2>2. pc[r] \in {"exists", "insert", "done"} \/ GetByID(Who(r))
    BY <1>3, <2>1, OpeningStep DEF Waits, Opens, Checks
  <2>3. QED
    BY <1>2, <2>1, <2>2 DEF OpenInv, GetByID
<1>4. ASSUME NEW r \in Opening, pc'[r] = "done", NEW q \in Jobs({"register"}), r \in before'[q]
      PROVE  Who(q) # Who(r)
  <2>1. pc[r] = "done" /\ (Called(q) => r \in before[q])
    BY <1>1, <1>4, LaterStep
  <2>2. CASE Called(q)
    BY <2>1, <2>2 DEF OpenInv
  <2>3. CASE ~Called(q)
    <3>1. q \in Newcomers /\ pc[q] = "new"
      BY <2>3 DEF Newcomers, Jobs, Called
    <3>2. users[Who(q)] = NoUser /\ users[Who(r)] # NoUser
      BY <2>1, <3>1 DEF UsersInv, OpenInv
    <3>3. QED
      BY <3>2
  <2>4. QED
    BY <2>2, <2>3
<1>5. ASSUME NEW r \in Opening, Alone(r)' PROVE Only(r)'
  BY <1>5, OnlyStep
<1>6. QED
  BY <1>1, <1>3, <1>4, <1>5 DEF OpenInv, Who

-----------------------------------------------------------------------------
CustomersInv == UsersInv /\ AccountsInv /\ DeletionsInv /\ OpenInv

LEMMA CustomersStart == BackOfficeInit => CustomersInv
<1> SUFFICES ASSUME BackOfficeInit PROVE CustomersInv
  OBVIOUS
<1>1. /\ load.work \subseteq Requests /\ accounts = FirstAccount /\ load \in Loads
      /\ \A q \in load.work : pc[q] = "new"
  BY CallAssumption DEF BackOfficeInit, CallsInit
<1>2. ASSUME NEW u \in Clients, FirstRow[u] # NoUser
      PROVE  /\ users[u] = [FirstRow[u] EXCEPT !.attempts = FirstAttempts(u)]
             /\ users[u] \in UserCols /\ users[u].deleted = FirstRow[u].deleted
  <2>1. FirstRow[u] \in UserRow /\ users[u] = [FirstRow[u] EXCEPT !.attempts = FirstAttempts(u)]
    BY <1>2, UserAssumption DEF BackOfficeInit
  <2>2. FirstAttempts(u) \in Nat
    BY <1>1, UserAssumption DEF FirstAttempts
  <2>3. MaxFailedLoginAttempts \in Nat
    BY UserAssumption
  <2>4. FirstRow[u] \in UserCols
    BY <2>1, <2>3 DEF UserRow, UserCols
  <2>5. QED
    BY <2>1, <2>2, <2>4 DEF UserCols
<1>3. users = [u \in Clients |-> users[u]] /\ \A u \in Clients : FirstRow[u] = NoUser => users[u] = NoUser
  BY DEF BackOfficeInit
<1>4. UsersInv
  <2>1. users \in [Clients -> UserCols \cup {NoUser}]
    BY <1>2, <1>3
  <2>2. \A r \in Newcomers : users[Who(r)] = NoUser
    BY <1>1, <1>3, UserAssumption DEF Newcomers, Jobs, Registering
  <2>3. \A r \in Jobs({"login"}) : pc[r] \notin {"count", "reset"}
    BY <1>1 DEF Jobs
  <2>4. QED
    BY <2>1, <2>2, <2>3 DEF UsersInv
<1>5. AccountsInv
  <2>1. AccountRow \subseteq AccountCols
    <3>1. 0..MaxBalance \subseteq Nat
      OBVIOUS
    <3>2. QED
      BY <3>1 DEF AccountRow, AccountCols
  <2>2. accounts \in [Accounts -> AccountCols \cup {NoAccount}]
    BY <1>1, <2>1, CustomerAssumption
  <2>3. ASSUME NEW a \in Accounts, accounts[a] # NoAccount, accounts[a].deleted PROVE Gone(accounts[a].owner)
    <3>1. accounts[a].owner \in Clients
      BY <2>2, <2>3 DEF AccountCols
    <3>2. FirstRow[accounts[a].owner] # NoUser /\ FirstRow[accounts[a].owner].deleted
      BY <1>1, <2>3, CustomerAssumption
    <3>3. users[accounts[a].owner] \in UserCols /\ users[accounts[a].owner].deleted
      BY <1>2, <3>1, <3>2
    <3>4. QED
      BY <3>3, NoUserIsNoRow DEF Gone
  <2>4. QED
    BY <1>1, <2>2, <2>3 DEF AccountsInv, Savers, Deleters, Jobs
<1>6. DeletionsInv
  BY <1>1 DEF DeletionsInv, Emptied, Deleters, Jobs
<1>7. OpenInv
  BY <1>1 DEF OpenInv, Only, Opening, Jobs
<1>8. QED
  BY <1>4, <1>5, <1>6, <1>7 DEF CustomersInv

LEMMA CustomersStutter == CustomersInv /\ UNCHANGED backOfficeVars => CustomersInv'
<1> SUFFICES ASSUME CustomersInv, UNCHANGED backOfficeVars PROVE CustomersInv'
  OBVIOUS
<1>1. /\ UNCHANGED <<load, pc, held, before, errors, users, accounts>>
      /\ Newcomers' = Newcomers /\ Savers' = Savers /\ Deleters' = Deleters /\ Opening' = Opening
      /\ \A ops : Jobs(ops)' = Jobs(ops)
  BY DEF backOfficeVars, callVars, tables, Newcomers, Savers, Deleters, Opening, Jobs
<1>2. /\ Changers' = Changers /\ \A q, r : Overlap(q, r)' = Overlap(q, r)
  BY <1>1 DEF Changers, Overlap, Called
<1>3. \A r : Alone(r)' = Alone(r)
  BY <1>2 DEF Alone
<1>4. UsersInv'
  BY <1>1 DEF CustomersInv, UsersInv, Who
<1>5. AccountsInv'
  BY <1>1 DEF CustomersInv, AccountsInv, Gone, Who
<1>6. DeletionsInv'
  <2>1. \A d : Shut(d)' = Shut(d)
    BY <1>1 DEF Shut, Op, Who
  <2>2. \A d : Emptied(d)' = Emptied(d)
    BY <1>1 DEF Emptied, TotalBalanceIsZero, GetByUserID, GetAccountByID, Poor, OwnedBy, IsActive, NoCopies, Who
  <2>3. QED
    BY <1>1, <1>3, <2>1, <2>2 DEF CustomersInv, DeletionsInv
<1>7. OpenInv'
  <2>1. \A r : Only(r)' = Only(r)
    <3>1. \A r, a : Touched(r, a)' = Touched(r, a)
      BY <1>1 DEF Touched, Jobs, A, Op
    <3>2. \A a : Open(a)' = Open(a)
      BY <1>1 DEF Open, GetAccountByID
    <3>3. QED
      BY <1>1, <3>1, <3>2 DEF Only, Same, A, Who
  <2>2. QED
    BY <1>1, <1>3, <2>1 DEF CustomersInv, OpenInv, Who
<1>8. QED
  BY <1>4, <1>5, <1>6, <1>7 DEF CustomersInv

(* The rows of users and of accounts, and what a deletion and an opening   *)
(* leave, for every pool of requests and every load.                       *)
THEOREM CustomersAreCorrect == BackOfficeSpec => []CustomersInv
<1>1. CallsInv /\ CustomersInv /\ [BackOfficeNext]_backOfficeVars => CustomersInv'
  BY UsersInvStep, AccountsInvStep, DeletionsStep, OpenStep, CustomersStutter DEF CustomersInv
<1>2. QED
  BY <1>1, CustomersStart, CallsAreInOrder, PTL DEF BackOfficeSpec

(* What a deleted customer had is gone, and nothing of it comes back.      *)
THEOREM DeletedDoOwnNothing == BackOfficeSpec => []DeletedOwnNothing
<1>1. CustomersInv => DeletedOwnNothing
  <2> SUFFICES ASSUME CustomersInv, NEW d \in Deleters, pc[d] = "done"
               PROVE  /\ users[Who(d)].deleted
                      /\ Alone(d) => \A a \in Accounts :
                           accounts[a] # NoAccount /\ accounts[a].owner = Who(d) =>
                             accounts[a].deleted /\ (IsActive(a) => accounts[a].balance = 0)
                      /\ \A q \in Jobs({"login", "refresh", "open", "open for", "profile", "accounts"}) :
                           d \in before[q] /\ About(q) = Who(d) => pc[q] # "done"
    BY DEF DeletedOwnNothing, Deleters
  <2>1. users[Who(d)].deleted
    BY DEF CustomersInv, AccountsInv, Gone
  <2>2. ASSUME Alone(d), NEW a \in Accounts, accounts[a] # NoAccount, accounts[a].owner = Who(d)
        PROVE  accounts[a].deleted /\ (IsActive(a) => accounts[a].balance = 0)
    BY <2>2 DEF CustomersInv, DeletionsInv, Emptied, Poor, OwnedBy
  <2>3. ASSUME NEW q \in Jobs({"login", "refresh", "open", "open for", "profile", "accounts"}),
               d \in before[q], About(q) = Who(d)
        PROVE  pc[q] # "done"
    <3>1. Shut(d) /\ q \in load.work
      BY DEF CustomersInv, DeletionsInv, Jobs
    <3>2. CASE Op(q) \in {"login", "refresh"}
      BY <2>3, <3>1, <3>2 DEF Shut, About
    <3>3. CASE Op(q) \notin {"login", "refresh"}
      BY <2>3, <3>1, <3>3 DEF Shut, About, Jobs
    <3>4. QED
      BY <3>2, <3>3
  <2>4. QED
    BY <2>1, <2>2, <2>3
<1>2. QED
  BY <1>1, CustomersAreCorrect, PTL

(* A customer's own request opens no second account of a type.             *)
THEOREM OneAccountPerTypeHolds == BackOfficeSpec => []OneAccountPerType
<1>1. CallsInv /\ CustomersInv => OneAccountPerType
  <2> SUFFICES ASSUME CallsInv, CustomersInv, NEW r \in Opening, pc[r] = "done", Alone(r),
                      NEW a \in Accounts \ {A(r)}, Open(a), Open(A(r)),
                      accounts[a].owner = accounts[A(r)].owner, accounts[a].type = accounts[A(r)].type,
                      \A q \in Changers : r \in before[q] /\ Called(q) =>
                        Op(q) \notin {"open", "open for", "move"} \/ A(q) \notin {a, A(r)}
               PROVE  FALSE
    BY DEF OneAccountPerType, Opening, A
  <2>1. A(r) \in Accounts
    BY CallAssumption, CustomerAssumption DEF Opening, Jobs, A, JobOf, CallsInv, CallTypes
  <2>2. ASSUME NEW q \in Jobs({"open", "open for", "move"}), r \in before[q]
        PROVE  A(q) \notin {a, A(r)}
    <3>1. q \in Changers /\ q \in load.work /\ Op(q) \in {"open", "open for", "move"}
      BY DEF Changers, Jobs
    <3>2. Called(q)
      BY <2>2, <3>1 DEF CallsInv, CallsInOrder
    <3>3. QED
      BY <2>2, <3>1, <3>2
  <2>3. ~Touched(r, a) /\ ~Touched(r, A(r))
    BY <2>2 DEF Touched
  <2>4. Only(r)
    BY DEF CustomersInv, OpenInv
  <2>5. Same(r, accounts[A(r)]) /\ ~Same(r, accounts[a])
    BY <2>1, <2>3, <2>4 DEF Only
  <2>6. QED
    BY <2>5 DEF Same
<1>2. QED
  BY <1>1, CallsAreInOrder, CustomersAreCorrect, PTL

-----------------------------------------------------------------------------
(* Passwords. *)

Setters(u) == {x \in Jobs({"reset password", "change password"}) : Who(x) = u}

(* The hash in u's row is the first, or that of a request that no later    *)
(* one has replaced.                                                       *)
HashIsKnown(u) ==
  \/ users[u].hash = FirstRow[u].hash /\ \A y \in Setters(u) : pc[y] # "done"
  \/ \E x \in Setters(u) :
       /\ pc[x] = "done" /\ JobOf[x].password = users[u].hash
       /\ \A y \in Setters(u) : pc[y] = "done" => x \notin before[y]

(* The hash was p at some moment after r was called. *)
WasHash(r, u, p) ==
  \/ p = FirstRow[u].hash /\ \A y \in Setters(u) \cap before[r] : pc[y] # "done"
  \/ \E x \in Setters(u) :
       /\ pc[x] = "done" /\ JobOf[x].password = p /\ r \notin before[x]
       /\ \A y \in Setters(u) \cap before[r] : pc[y] = "done" => x \notin before[y]

(* Requests that compare a password, with whose, and which. *)
Comparers == Jobs({"login", "change password"})
Whose(r) == IF Op(r) = "login" THEN held[r].id ELSE Who(r)
Guessed(r) == IF Op(r) = "login" THEN JobOf[r].password ELSE JobOf[r].old
Right(r) == pc[r] \in IF Op(r) = "login" THEN {"reset", "issue", "done"} ELSE {"write password", "done"}
Wrong(r) == pc[r] \in IF Op(r) = "login" THEN {"count", "wrong"} ELSE {"wrong"}

PasswordsInv ==
  /\ \A u \in Clients : FirstRow[u] # NoUser => users[u] # NoUser /\ HashIsKnown(u)
  /\ \A r \in Comparers : Whose(r) \in Clients /\ FirstRow[Whose(r)] # NoUser =>
       /\ Right(r) => WasHash(r, Whose(r), Guessed(r))
       /\ Wrong(r) => \E q \in Passwords \ {Guessed(r)} : WasHash(r, Whose(r), q)

(* Request r sets the password. *)
Sets(r) == /\ pc[r] = "write password" /\ pc'[r] = "done" /\ GetByID(Who(r))
           /\ users'[Who(r)].hash = JobOf[r].password

(* A step leaves the hash of a row that is there, unless a request sets it. *)
KeepsHash(u) == users[u] # NoUser => users'[u] # NoUser /\ users'[u].hash = users[u].hash

(* An update of one row changes no hash if the columns written keep it.    *)
LEMMA UpdateKeepsHash ==
  ASSUME UsersInv, NEW u \in Clients, NEW row, Update(u, row), NEW v \in Clients,
         GetByID(u) => row \in UserCols /\ row.hash = users[u].hash
  PROVE  KeepsHash(v)
<1>1. users' = [users EXCEPT ![u] = IF GetByID(u) THEN row ELSE users[u]]
  BY DEF Update
<1>2. users'[v] = users[v] \/ (v = u /\ GetByID(u) /\ users'[v] = row)
  BY <1>1 DEF UsersInv
<1>3. QED
  BY <1>2, NoUserIsNoRow DEF KeepsHash

(* Of the requests about users, only the two setters change a hash.        *)
LEMMA HashesWritten ==
  ASSUME CallsInv, UsersInv, NEW r \in load.work, OnUsers(r), NEW u \in Clients
  PROVE  KeepsHash(u) \/ (r \in Setters(u) /\ Sets(r))
<1>1. Who(r) \in Clients /\ JobOf[r].password \in Passwords /\ JobOf[r].email \in Emails
  BY CallAssumption, UserAssumption DEF CallsInv, CallTypes
<1>2. pc = [q \in load.work |-> pc[q]]
  BY DEF CallsInv, CallTypes
<1> DEFINE row == users[Who(r)]
<1>3. GetByID(Who(r)) => row \in UserCols
  BY <1>1, UpdatesKeepTypes
<1> HIDE DEF row
<1>4. CASE UNCHANGED users
  BY <1>4 DEF KeepsHash
<1>5. CASE InsertNewUser(r)
  <2>1. r \in Newcomers /\ pc[r] = "insert user"
    BY <1>5 DEF InsertNewUser, Runs, At, Newcomers, Jobs
  <2>2. users[Who(r)] = NoUser
    BY <2>1 DEF UsersInv
  <2>3. CASE users' = [users EXCEPT ![Who(r)] = NewUser(JobOf[r].email, JobOf[r].password)]
    BY <1>1, <2>2, <2>3 DEF KeepsHash, UsersInv
  <2>4. QED
    BY <1>4, <1>5, <2>3 DEF InsertNewUser, InsertUser
<1>6. ASSUME NEW new, Update(Who(r), new), GetByID(Who(r)) => new \in UserCols /\ new.hash = row.hash
      PROVE  KeepsHash(u)
  BY <1>1, <1>6, UpdateKeepsHash DEF row
<1>7. GetByID(Who(r)) =>
        /\ [row EXCEPT !.attempts = 0, !.locked = FALSE] \in UserCols
        /\ [row EXCEPT !.attempts = 0, !.locked = FALSE].hash = row.hash
        /\ [row EXCEPT !.deleted = TRUE] \in UserCols
        /\ [row EXCEPT !.deleted = TRUE].hash = row.hash
        /\ [row EXCEPT !.email = JobOf[r].email] \in UserCols
        /\ [row EXCEPT !.email = JobOf[r].email].hash = row.hash
  BY <1>1, <1>3 DEF UserCols
<1>8. CASE \/ ResetFailedLoginAttempts(Who(r)) \/ DeleteUserRow(Who(r))
           \/ UpdateEmail(Who(r), JobOf[r].email)
  BY <1>6, <1>7, <1>8 DEF ResetFailedLoginAttempts, DeleteUserRow, UpdateEmail, row
<1>9. ASSUME NEW op \in {"reset password", "change password"}, WritePassword(r, op)
      PROVE  KeepsHash(u) \/ (r \in Setters(u) /\ Sets(r))
  <2>1. /\ Op(r) = op /\ pc[r] = "write password"
        /\ users' = [users EXCEPT ![Who(r)] = IF GetByID(Who(r)) THEN [row EXCEPT !.hash = JobOf[r].password]
                                                               ELSE row]
        /\ pc'[r] = IF GetByID(Who(r)) THEN "done" ELSE "failed"
    BY <1>2, <1>9 DEF WritePassword, Runs, At, UpdatePasswordHash, Update, FoundOr, Goto, row
  <2>2. CASE u # Who(r) \/ ~GetByID(Who(r))
    BY <1>1, <2>1, <2>2 DEF KeepsHash, UsersInv, row
  <2>3. CASE u = Who(r) /\ GetByID(u)
    <3>1. users'[u] = [row EXCEPT !.hash = JobOf[r].password]
      BY <1>1, <2>1, <2>3 DEF UsersInv
    <3>2. users'[u].hash = JobOf[r].password
      BY <1>3, <2>3, <3>1 DEF UserCols
    <3>3. QED
      BY <2>1, <2>3, <3>2 DEF Sets, Setters, Jobs
  <2>4. QED
    BY <2>2, <2>3
<1>10. \/ UNCHANGED users \/ InsertNewUser(r) \/ ResetFailedLoginAttempts(Who(r))
       \/ DeleteUserRow(Who(r)) \/ UpdateEmail(Who(r), JobOf[r].email)
       \/ WritePassword(r, "reset password") \/ WritePassword(r, "change password")
  BY DEF OnUsers, Register, AddCustomer, CreateCustomer, GetMyProfile, GetProfileOf, GetCustomerProfile,
         CheckEmail, UpdateMyEmail, UpdateMyPassword, ResetCustomerPassword, DeleteOwner, UnlockUser,
         DeleteUser, UpdateCustomerEmail, CheckNewEmail, FindForEmail, WriteEmail, CustomerUpdatePassword,
         AdminResetPassword, FindForPassword, Find
<1>11. QED
  BY <1>4, <1>5, <1>8, <1>9, <1>10

(* Logins write attempts and locks, never hashes.                          *)
LEMMA SessionsKeepHashes ==
  ASSUME CallsInv, UsersInv, NEW r \in load.work, OnSessions(r), NEW u \in Clients
  PROVE  KeepsHash(u)
<1>1. CASE UNCHANGED users
  BY <1>1 DEF KeepsHash
<1>2. ASSUME Op(r) = "login", pc[r] \in {"count", "reset"},
             UpdateFailedLoginAttempts(held[r].id, held[r].row)
      PROVE  KeepsHash(u)
  <2>1. held[r].id \in Clients /\ held[r].row.attempts \in Nat /\ held[r].row.locked \in BOOLEAN
    BY <1>2 DEF UsersInv, Jobs, UserCols
  <2> DEFINE new == [users[held[r].id] EXCEPT !.attempts = held[r].row.attempts,
                                              !.locked = held[r].row.locked]
  <2>2. GetByID(held[r].id) => new \in UserCols /\ new.hash = users[held[r].id].hash
    BY <2>1, UpdatesKeepTypes DEF UserCols
  <2>3. QED
    BY <1>2, <2>1, <2>2, UpdateKeepsHash DEF UpdateFailedLoginAttempts
<1>3. \/ UNCHANGED users
      \/ /\ Op(r) = "login" /\ pc[r] \in {"count", "reset"}
         /\ UpdateFailedLoginAttempts(held[r].id, held[r].row)
  BY DEF OnSessions, SessionStep, RequireAuth, Login, LookUp, CountGuess, ForgetGuesses, GenerateTokens,
         RefreshToken, RefreshTokens, GetByTokenHash, FindOwner, RevokeOld, Logout, BlacklistToken,
         RevokeAll, Runs, At, Logged, sessionTables
<1>4. QED
  BY <1>1, <1>2, <1>3

(* A hash changes only by a request that sets it.                          *)
LEMMA HashStep ==
  ASSUME CallsInv, UsersInv, BackOfficeNext, NEW u \in Clients
  PROVE  KeepsHash(u) \/ \E r \in Setters(u) : Sets(r)
<1>1. CASE UNCHANGED users
  BY <1>1 DEF KeepsHash
<1>2. QED
  BY <1>1, HashesWritten, SessionsKeepHashes, Families DEF BackOfficeNext, tables

(* What requests about passwords do. *)
LEMMA SettersStep ==
  ASSUME CallsInv, UsersInv, BackOfficeNext, NEW q \in Jobs({"reset password", "change password"})
  PROVE  /\ pc'[q] = "done" => pc[q] = "done" \/ Sets(q)
         /\ pc'[q] \in {"write password", "wrong"} =>
              \/ pc'[q] = pc[q]
              \/ Op(q) = "reset password"
              \/ /\ pc[q] = "start" /\ GetByID(Who(q))
                 /\ pc'[q] = "write password" <=> JobOf[q].old = users[Who(q)].hash
<1> DEFINE ops == {"reset password", "change password"}
<1>1. CASE \A r \in Jobs(ops) : Waits(r)
  BY <1>1 DEF Waits
<1>2. ASSUME NEW r \in Jobs(ops), Acts(r)
      PROVE  /\ pc'[q] = "done" => pc[q] = "done" \/ Sets(q)
             /\ pc'[q] \in {"write password", "wrong"} =>
                  \/ pc'[q] = pc[q]
                  \/ Op(q) = "reset password"
                  \/ /\ pc[q] = "start" /\ GetByID(Who(q))
                     /\ pc'[q] = "write password" <=> JobOf[q].old = users[Who(q)].hash
  <2>1. /\ r \in load.work /\ Op(r) \in ops /\ q \in load.work
        /\ \A p \in load.work \ {r} : pc'[p] = pc[p]
    BY <1>2, ActsMove, OneMoves DEF Jobs, CallsInv
  <2>2. CASE r = q
    <3>1. /\ OnUsers(q)
          /\ \/ FindForPassword(q) \/ Find(q, "reset password", "write password")
             \/ WritePassword(q, "reset password") \/ WritePassword(q, "change password")
      BY <1>2, <2>1, <2>2, Families
         DEF Acts, OnUsers, Register, AddCustomer, CreateCustomer, GetMyProfile, GetProfileOf, GetCustomerProfile,
             CheckEmail, InsertNewUser, UpdateMyEmail, UpdateMyPassword, ResetCustomerPassword, DeleteOwner,
             UnlockUser, DeleteUser, UpdateCustomerEmail, CheckNewEmail, FindForEmail, WriteEmail,
             CustomerUpdatePassword, AdminResetPassword, Find, Runs, At, Arrives, AccountOps, ExternalOps
    <3>2. pc = [p \in load.work |-> pc[p]]
      BY DEF CallsInv, CallTypes
    <3>3. CASE FindForPassword(q)
      <4>1. CASE Goto(q, "refused")
        BY <2>1, <3>2, <4>1 DEF Goto
      <4>2. CASE Goto(q, "write password") /\ GetByID(Who(q)) /\ JobOf[q].old = users[Who(q)].hash
        BY <2>1, <3>2, <3>3, <4>2 DEF Goto, FindForPassword, Runs, At
      <4>3. CASE Goto(q, "wrong") /\ GetByID(Who(q)) /\ JobOf[q].old # users[Who(q)].hash
        BY <2>1, <3>2, <3>3, <4>3 DEF Goto, FindForPassword, Runs, At
      <4>4. \/ Goto(q, "refused")
            \/ Goto(q, "write password") /\ GetByID(Who(q)) /\ JobOf[q].old = users[Who(q)].hash
            \/ Goto(q, "wrong") /\ GetByID(Who(q)) /\ JobOf[q].old # users[Who(q)].hash
        BY <3>3, Zenon DEF FindForPassword, ComparePassword
      <4>5. QED
        BY <4>1, <4>2, <4>3, <4>4
    <3>4. CASE Find(q, "reset password", "write password")
      BY <2>1, <3>2, <3>4 DEF Find, Runs, At, Goto
    <3>5. ASSUME NEW op, WritePassword(q, op)
          PROVE  pc'[q] \notin {"write password", "wrong"} /\ (pc'[q] = "done" => Sets(q))
      <4>1. /\ pc[q] = "write password"
            /\ pc'[q] = IF GetByID(Who(q)) THEN "done" ELSE "failed"
            /\ users' = [users EXCEPT ![Who(q)] = IF GetByID(Who(q))
                           THEN [users[Who(q)] EXCEPT !.hash = JobOf[q].password] ELSE users[Who(q)]]
        BY <2>1, <3>2, <3>5 DEF WritePassword, Runs, At, FoundOr, Goto, UpdatePasswordHash, Update
      <4>2. Who(q) \in Clients /\ users = [u \in Clients |-> users[u]]
        BY <2>1, CallAssumption, UserAssumption DEF CallsInv, CallTypes, UsersInv
      <4>3. ASSUME GetByID(Who(q)) PROVE users'[Who(q)].hash = JobOf[q].password
        BY <4>1, <4>2, <4>3, UpdatesKeepTypes DEF UserCols
      <4>4. QED
        BY <4>1, <4>3 DEF Sets
    <3>6. QED
      BY <3>1, <3>3, <3>4, <3>5
  <2>3. QED
    BY <2>1, <2>2
<1>3. QED
  BY <1>1, <1>2, Bystanders

(* A login compares the password when it looks the user up, and only then. *)
LEMMA LoginsGoOn ==
  ASSUME CallsInv, BackOfficeNext, NEW q \in Jobs({"login"})
  PROVE  \/ /\ held'[q] = held[q]
            /\ pc'[q] \in {"reset", "issue", "done"} => pc[q] \in {"reset", "issue", "done"}
            /\ pc'[q] \in {"count", "wrong"} => pc[q] \in {"count", "wrong"}
         \/ LookUp(q)
<1>1. CASE \A r \in Jobs({"login"}) : Waits(r)
  BY <1>1 DEF Waits
<1>2. ASSUME NEW r \in Jobs({"login"}), Acts(r), ~LookUp(q)
      PROVE  /\ held'[q] = held[q]
             /\ pc'[q] \in {"reset", "issue", "done"} => pc[q] \in {"reset", "issue", "done"}
             /\ pc'[q] \in {"count", "wrong"} => pc[q] \in {"count", "wrong"}
  <2>1. /\ r \in load.work /\ Op(r) = "login" /\ q \in load.work /\ OnSessions(r) /\ ~RequireAuth(r)
        /\ \A p \in load.work \ {r} : pc'[p] = pc[p] /\ held'[p] = held[p]
    BY <1>2, Families, ActsMove, OneMoves
       DEF Acts, Jobs, UserOps, AccountOps, ExternalOps, CallsInv
  <2>2. CASE r = q
    <3>1. CountGuess(q) \/ ForgetGuesses(q) \/ GenerateTokens(q)
      BY <1>2, <2>1, <2>2
         DEF OnSessions, SessionStep, Login, RefreshToken, RefreshTokens, GetByTokenHash, FindOwner,
             RevokeOld, Logout, BlacklistToken, RevokeAll, Runs, At, Arrives
    <3>2. QED
      BY <2>1, <3>1 DEF CountGuess, ForgetGuesses, GenerateTokens, Goto, CallsInv, CallTypes, Runs, At
  <2>3. QED
    BY <2>1, <2>2
<1>3. QED
  BY <1>1, <1>2, Bystanders

-----------------------------------------------------------------------------
(* What was the hash while r ran stays so: later setters come after r.     *)
LEMMA WasHashStays ==
  ASSUME CallsInv, CallsInv', UNCHANGED load, \A q \in load.work : Goes(q),
         NEW r \in load.work, Called(r), NEW u, NEW p, WasHash(r, u, p)
  PROVE  WasHash(r, u, p)'
<1>1. /\ Setters(u)' = Setters(u) /\ Setters(u) \subseteq load.work
      /\ before'[r] = before[r] /\ before[r] \subseteq load.work
  BY DEF Setters, Jobs, Goes, CallsInv, CallTypes
<1>2. \A y \in before[r] : HasEnded(y) /\ pc'[y] = pc[y] /\ before'[y] = before[y]
  BY <1>1 DEF CallsInv, CallsInOrder, Goes, HasEnded, Ended, Called
<1>3. \A x \in Setters(u) : pc[x] = "done" => pc'[x] = "done" /\ before'[x] = before[x]
  BY <1>1 DEF Goes, HasEnded, Ended, Called
<1>4. CASE p = FirstRow[u].hash /\ \A y \in Setters(u) \cap before[r] : pc[y] # "done"
  BY <1>1, <1>2, <1>4 DEF WasHash
<1>5. ASSUME NEW x \in Setters(u), pc[x] = "done", JobOf[x].password = p, r \notin before[x],
             \A y \in Setters(u) \cap before[r] : pc[y] = "done" => x \notin before[y]
      PROVE  WasHash(r, u, p)'
  BY <1>1, <1>2, <1>3, <1>5 DEF WasHash
<1>6. QED
  BY <1>4, <1>5 DEF WasHash

(* What is read now was the hash while r ran. *)
LEMMA HashIsRead ==
  ASSUME CallsInv, CallsInv', UNCHANGED load, \A q \in load.work : Goes(q),
         NEW r \in load.work, ~HasEnded(r), Called(r)', NEW u, HashIsKnown(u),
         NEW p, p = users[u].hash
  PROVE  WasHash(r, u, p)'
<1>1. /\ Setters(u)' = Setters(u) /\ Setters(u) \subseteq load.work
      /\ before'[r] \subseteq Finished
  <2>1. Setters(u)' = Setters(u) /\ Setters(u) \subseteq load.work
    BY DEF Setters, Jobs
  <2>2. before'[r] = before[r] \/ before'[r] = Finished
    BY DEF Goes
  <2>3. before[r] \subseteq load.work /\ \A x \in before[r] : HasEnded(x)
    BY DEF CallsInv, CallTypes, CallsInOrder
  <2>4. QED
    BY <2>1, <2>2, <2>3 DEF Finished
<1>2. \A y \in Finished : pc'[y] = pc[y] /\ before'[y] = before[y]
  BY DEF Finished, Goes, HasEnded, Ended, Called
<1>3. \A x \in Setters(u) : pc[x] = "done" => /\ pc'[x] = "done" /\ before'[x] = before[x]
                                             /\ r \notin before[x]
  <2>1. \A x \in Setters(u) : pc[x] = "done" => pc'[x] = "done" /\ before'[x] = before[x]
    BY <1>1 DEF Goes, HasEnded, Ended, Called
  <2>2. \A x \in Setters(u) : r \notin before[x]
    BY <1>1 DEF CallsInv, CallsInOrder
  <2>3. QED
    BY <2>1, <2>2
<1>4. CASE p = FirstRow[u].hash /\ \A y \in Setters(u) : pc[y] # "done"
  BY <1>1, <1>2, <1>4 DEF WasHash
<1>5. ASSUME NEW x \in Setters(u), pc[x] = "done", JobOf[x].password = p,
             \A y \in Setters(u) : pc[y] = "done" => x \notin before[y]
      PROVE  WasHash(r, u, p)'
  BY <1>1, <1>2, <1>3, <1>5 DEF WasHash
<1>6. QED
  BY <1>4, <1>5 DEF HashIsKnown

(* No step breaks PasswordsInv: hashes change only by setters, and what a  *)
(* request compares is the hash it reads.                                  *)
LEMMA PasswordsInvStep ==
  ASSUME CallsInv, BackOfficeNext, UsersInv, PasswordsInv
  PROVE  PasswordsInv'
<1>1. /\ CallsInv' /\ UNCHANGED load /\ \A q \in load.work : Goes(q)
      /\ load.work \subseteq Requests
  BY CallsStep, CallAssumption DEF CallsInv, CallTypes
<1>2. /\ \A u : Setters(u)' = Setters(u) /\ Setters(u) \subseteq load.work
      /\ Comparers' = Comparers /\ Comparers \subseteq load.work
      /\ \A r \in Comparers : Guessed(r)' = Guessed(r)
  BY <1>1 DEF Setters, Comparers, Jobs, Guessed
<1>3. ASSUME NEW u \in Clients, FirstRow[u] # NoUser
      PROVE  (users[u] # NoUser /\ HashIsKnown(u))'
  <2>1. users[u] # NoUser /\ HashIsKnown(u)
    BY <1>3 DEF PasswordsInv
  <2>2. \A y \in Setters(u) : pc'[y] = "done" => pc[y] = "done" \/ Sets(y)
    BY SettersStep, UsersInvStep DEF Setters, Jobs
  <2>3. \A x \in Setters(u) : pc[x] = "done" => pc'[x] = "done" /\ before'[x] = before[x]
    BY <1>1, <1>2 DEF Goes, HasEnded, Ended, Called
  <2>4. \A y \in Setters(u) : Sets(y) => /\ pc'[y] = "done" /\ before'[y] = before[y]
                                         /\ \A z \in load.work : y \notin before[z]
    BY <1>1, <1>2 DEF Sets, Goes, Called, CallsInv, CallsInOrder, HasEnded, Ended
  <2>5. ASSUME NEW x \in Setters(u), Sets(x)
        PROVE  (users[u] # NoUser /\ HashIsKnown(u))'
    <3>1. users'[u].hash = JobOf[x].password /\ pc'[x] = "done"
      BY <2>5 DEF Sets, Setters
    <3>2. users'[u] # NoUser
      BY <1>3, <2>1, EveryStepOnUsers, NoUserIsNoRow DEF UsersStep, RowStep
    <3>3. \A y \in Setters(u) : pc'[y] = "done" => x \notin before'[y]
      BY <1>2, <2>2, <2>3, <2>4, <2>5
    <3>4. QED
      BY <1>2, <3>1, <3>2, <3>3 DEF HashIsKnown
  <2>6. ASSUME \A y \in Setters(u) : ~Sets(y)
        PROVE  (users[u] # NoUser /\ HashIsKnown(u))'
    <3>1. users'[u] # NoUser /\ users'[u].hash = users[u].hash
      BY <1>3, <2>1, <2>6, HashStep DEF KeepsHash
    <3>2. CASE users[u].hash = FirstRow[u].hash /\ \A y \in Setters(u) : pc[y] # "done"
      BY <1>2, <2>2, <2>6, <3>1, <3>2 DEF HashIsKnown
    <3>3. ASSUME NEW x \in Setters(u), pc[x] = "done", JobOf[x].password = users[u].hash,
                 \A y \in Setters(u) : pc[y] = "done" => x \notin before[y]
          PROVE  HashIsKnown(u)'
      BY <1>2, <2>2, <2>3, <2>6, <3>1, <3>3 DEF HashIsKnown
    <3>4. QED
      BY <2>1, <3>1, <3>2, <3>3 DEF HashIsKnown
  <2>7. QED
    BY <2>5, <2>6
<1>4. ASSUME NEW r \in Comparers, NEW u \in Clients, u = Whose(r)', FirstRow[u] # NoUser
      PROVE  /\ Right(r)' => WasHash(r, u, Guessed(r))'
             /\ Wrong(r)' => \E q \in Passwords \ {Guessed(r)} : WasHash(r, u, q)'
  <2>1. CASE Whose(r) = u /\ (Right(r)' => Right(r)) /\ (Wrong(r)' => Wrong(r))
    <3>1. Right(r) \/ Wrong(r) => Called(r)
      BY DEF Right, Wrong, Called
    <3>2. /\ Right(r) => WasHash(r, u, Guessed(r))
          /\ Wrong(r) => \E q \in Passwords \ {Guessed(r)} : WasHash(r, u, q)
      BY <1>4, <2>1 DEF PasswordsInv
    <3>3. QED
      BY <1>1, <1>2, <2>1, <3>1, <3>2, WasHashStays
  <2>2. ASSUME ~HasEnded(r), Called(r)', GetByID(u),
               Right(r)' => Guessed(r) = users[u].hash, Wrong(r)' => Guessed(r) # users[u].hash
        PROVE  /\ Right(r)' => WasHash(r, u, Guessed(r))'
               /\ Wrong(r)' => \E q \in Passwords \ {Guessed(r)} : WasHash(r, u, q)'
    <3>1. HashIsKnown(u)
      BY <1>4 DEF PasswordsInv
    <3>2. users[u].hash \in Passwords
      BY <2>2, UpdatesKeepTypes DEF UserCols
    <3>3. \A p : p = users[u].hash => WasHash(r, u, p)'
      BY <1>1, <1>2, <2>2, <3>1, HashIsRead
    <3>4. QED
      BY <2>2, <3>2, <3>3
  <2>3. CASE Op(r) = "change password"
    <3>1. /\ r \in Jobs({"reset password", "change password"}) /\ u = Who(r) /\ Whose(r) = u
          /\ Guessed(r) = JobOf[r].old
      BY <1>4, <2>3 DEF Comparers, Jobs, Whose, Guessed
    <3>2. /\ pc'[r] = "done" => pc[r] = "done" \/ Sets(r)
          /\ pc'[r] \in {"write password", "wrong"} =>
                \/ pc'[r] = pc[r]
                \/ /\ pc[r] = "start" /\ GetByID(u)
                   /\ pc'[r] = "write password" <=> Guessed(r) = users[u].hash
      BY <2>3, <3>1, SettersStep
    <3>3. CASE pc[r] = "start" /\ GetByID(u) /\ pc'[r] \in {"write password", "wrong"}
      BY <2>2, <2>3, <3>2, <3>3 DEF Right, Wrong, HasEnded, Ended, Called
    <3>4. CASE ~(pc[r] = "start" /\ GetByID(u) /\ pc'[r] \in {"write password", "wrong"})
      BY <2>1, <2>3, <3>1, <3>2, <3>4 DEF Right, Wrong, Sets
    <3>5. QED
      BY <3>3, <3>4
  <2>4. CASE Op(r) = "login"
    <3>1. r \in Jobs({"login"}) /\ Guessed(r) = JobOf[r].password /\ u = held'[r].id /\ Whose(r) = held[r].id
      BY <1>4, <2>4 DEF Comparers, Jobs, Whose, Guessed
    <3>2. CASE LookUp(r)
      <4>1. pc[r] = "new" /\ held[r] = Nothing
        BY <1>2, <3>2 DEF LookUp, Arrives, CallsInv, CallsInOrder, Called
      <4>2. held'[r] # held[r]
        BY <1>4, <3>1, <4>1, UserAssumption
      <4>3. PICK v \in GetByEmail(JobOf[r].email) :
              \/ /\ pc'[r] = "reset" /\ held'[r] = Copy(v, ResetFailedAttempts(users[v]))
                 /\ Guessed(r) = users[v].hash
              \/ /\ pc'[r] = "count" /\ held'[r] = Copy(v, IncrementFailedAttempts(users[v]))
                 /\ Guessed(r) # users[v].hash
        BY <1>2, <3>1, <3>2, <4>2, LookUpReads
      <4>4. GetByID(u) /\ v = u
        BY <3>1, <4>3 DEF GetByEmail, Copy
      <4>5. QED
        BY <2>2, <2>4, <4>1, <4>3, <4>4 DEF Right, Wrong, HasEnded, Ended, Called
    <3>3. CASE ~LookUp(r)
      BY <2>1, <2>4, <3>1, <3>3, LoginsGoOn DEF Right, Wrong
    <3>4. QED
      BY <3>2, <3>3
  <2>5. QED
    BY <2>3, <2>4 DEF Comparers, Jobs
<1>5. QED
  BY <1>2, <1>3, <1>4 DEF PasswordsInv

(* At the start the hashes are the first ones.                             *)
LEMMA PasswordsStart == BackOfficeInit => PasswordsInv
<1> SUFFICES ASSUME BackOfficeInit PROVE PasswordsInv
  OBVIOUS
<1>1. ASSUME NEW u \in Clients, FirstRow[u] # NoUser
      PROVE  users[u] # NoUser /\ users[u].hash = FirstRow[u].hash
  <2>1. FirstRow[u] \in UserRow /\ users[u] = [FirstRow[u] EXCEPT !.attempts = FirstAttempts(u)]
    BY <1>1, UserAssumption DEF BackOfficeInit
  <2>2. users[u].hash = FirstRow[u].hash /\ users[u].email = FirstRow[u].email
        /\ DOMAIN users[u] = DOMAIN FirstRow[u]
    BY <2>1 DEF UserRow
  <2>3. "hash" \in DOMAIN FirstRow[u] /\ "hash" \notin DOMAIN NoUser
    BY <2>1 DEF UserRow, NoUser
  <2>4. QED
    BY <2>2, <2>3
<1>2. \A q \in load.work : pc[q] = "new"
  BY DEF BackOfficeInit, CallsInit
<1>3. QED
  BY <1>1, <1>2 DEF PasswordsInv, HashIsKnown, Setters, Comparers, Jobs, Right, Wrong

(* A login, or a change of password, takes a password just when it was the *)
(* user's while the request ran.                                           *)
THEOREM PasswordsStayCurrent == BackOfficeSpec => []PasswordsAreCurrent
<1>1. CallsInv /\ CustomersInv /\ PasswordsInv /\ [BackOfficeNext]_backOfficeVars => PasswordsInv'
  <2>1. ASSUME UNCHANGED backOfficeVars, PasswordsInv PROVE PasswordsInv'
    <3>1. /\ UNCHANGED <<load, pc, held, before, users>>
          /\ \A ops : Jobs(ops)' = Jobs(ops)
      BY <2>1 DEF backOfficeVars, callVars, tables, Jobs
    <3>2. /\ Comparers' = Comparers /\ \A u : Setters(u)' = Setters(u) /\ HashIsKnown(u)' = HashIsKnown(u)
          /\ \A r : /\ Right(r)' = Right(r) /\ Wrong(r)' = Wrong(r)
                   /\ Guessed(r)' = Guessed(r) /\ Whose(r)' = Whose(r)
      BY <3>1 DEF Comparers, Setters, HashIsKnown, Right, Wrong, Guessed, Whose, Op, Who
    <3>3. ASSUME NEW r \in Comparers, NEW u \in Clients, u = Whose(r), FirstRow[u] # NoUser
          PROVE  /\ Right(r)' => WasHash(r, u, Guessed(r))'
                 /\ Wrong(r)' => \E q \in Passwords \ {Guessed(r)} : WasHash(r, u, q)'
      <4>1. \A p : WasHash(r, u, p) => WasHash(r, u, p)'
        BY <3>1, <3>2 DEF WasHash
      <4>2. QED
        BY <2>1, <3>2, <3>3, <4>1 DEF PasswordsInv
    <3>4. QED
      BY <2>1, <3>1, <3>2, <3>3 DEF PasswordsInv
  <2>2. QED
    BY <2>1, PasswordsInvStep DEF CustomersInv
<1>2. PasswordsInv => PasswordsAreCurrent
  <2> SUFFICES ASSUME PasswordsInv, NEW r \in Comparers, NEW u \in Clients, u = Whose(r),
                      FirstRow[u] # NoUser
               PROVE  /\ pc[r] = "done" => MayBeCurrent(r, u, Guessed(r))
                      /\ pc[r] = "wrong" => \E q \in Passwords \ {Guessed(r)} : MayBeCurrent(r, u, q)
    BY DEF PasswordsAreCurrent, Comparers, Whose, Guessed
  <2>1. PasswordWrites(u) \subseteq Setters(u)
    BY DEF PasswordWrites, Setters
  <2>2. \A x \in Setters(u) : pc[x] = "done" => x \in PasswordWrites(u)
    BY DEF PasswordWrites, Setters
  <2>3. \A p : WasHash(r, u, p) => MayBeCurrent(r, u, p)
    BY <2>1, <2>2 DEF WasHash, MayBeCurrent, Replaced
  <2>4. QED
    BY <2>3 DEF PasswordsInv, Right, Wrong
<1>3. QED
  BY <1>1, <1>2, PasswordsStart, CallsAreInOrder, CustomersAreCorrect, PTL DEF BackOfficeSpec

-----------------------------------------------------------------------------
(* The lockout. *)

Logins == Jobs({"login"})

(* The attempts of a row, and its lock, have n wrong passwords to explain them. *)
Explains(n, row) == row.attempts <= n /\ (row.locked => MaxFailedLoginAttempts <= n)

Counted(u) == FirstAttempts(u) + Cardinality(Guesses(u))

(* Only wrong passwords count: in the table and in the copies of logins. *)
GuessesInv == \A u \in Clients :
  /\ users[u] # NoUser => Explains(Counted(u), users[u])
  /\ \A q \in Logins : held[q].id = u =>
       /\ users[u] # NoUser
       /\ pc[q] \in {"count", "reset"} => Explains(Counted(u), held[q].row)

(* Who has come for user u: logins that found the row, and unlocks. *)
Tries(u) == {x \in Unlocks(u) : Called(x)}

Missed(u) == {w \in Guesses(u) : pc[w] = "wrong"}

(* So far there were only wrong passwords, one after the other. *)
OnlyMisses(u) ==
  /\ \A x \in Tries(u) : x \in Guesses(u) /\ pc[x] \in {"count", "wrong"}
  /\ InOrder(Tries(u))

(* Then each has been counted, or is about to be. *)
MissesCount(u) ==
  LET k == FirstAttempts(u) + Cardinality(Missed(u)) IN
  /\ users[u].locked \/ (k <= users[u].attempts /\ k < MaxFailedLoginAttempts)
  /\ \A w \in Tries(u) : pc[w] = "count" =>
       /\ k + 1 <= held[w].row.attempts
       /\ held[w].row.locked \/ k + 1 < MaxFailedLoginAttempts

MissesInv == \A u \in Clients : Calm /\ OnlyMisses(u) /\ GetByID(u) => MissesCount(u)

(* Wrong passwords, one after the other, with nothing between them and g. *)
Streak(W, g, u) ==
  /\ \A w \in W : w \in Guesses(u) \cap before[g] /\ pc[w] = "wrong"
  /\ InOrder(W)
  /\ \A x \in Unlocks(u) \ (W \cup {g}) : Called(x) => g \in before[x]

(* A login that has got past the lock came in time. *)
InTime == \A g \in Logins : \A u \in Clients :
  Calm /\ pc[g] \in {"reset", "issue", "done"} /\ held[g].id = u =>
    \A W \in SUBSET load.work :
      Streak(W, g, u) => FirstAttempts(u) + Cardinality(W) < MaxFailedLoginAttempts

LockoutInv == GuessesInv /\ MissesInv /\ InTime

-----------------------------------------------------------------------------
(* Every request but q stays as it is. *)
OthersStay(q) == \A p \in load.work \ {q} : pc'[p] = pc[p] /\ held'[p] = held[p]

(* What a step may be to login q. *)
LEMMA LoginSteps ==
  ASSUME CallsInv, BackOfficeNext, NEW q \in Logins
  PROVE  \/ LookUp(q) /\ OthersStay(q)
         \/ CountGuess(q) /\ OthersStay(q)
         \/ ForgetGuesses(q) /\ OthersStay(q)
         \/ /\ held'[q] = held[q]
            /\ \/ pc'[q] = pc[q]
               \/ pc[q] = "issue" /\ pc'[q] = "done"
               \/ Called(q) /\ ~HasEnded(q) /\ pc'[q] = "failed" /\ ~Calm'
<1>1. load.work \subseteq Requests /\ pc = [p \in load.work |-> pc[p]] /\ held = [p \in load.work |-> held[p]]
  BY CallAssumption DEF CallsInv, CallTypes
<1>2. ASSUME NEW r \in load.work, Op(r) = "login", OnSessions(r)
      PROVE  (LookUp(r) \/ CountGuess(r) \/ ForgetGuesses(r) \/ GenerateTokens(r)) /\ OthersStay(r)
  <2>1. OthersStay(r)
    BY <1>2, SessionsMove, OneMoves DEF CallsInv, OthersStay
  <2>2. ~RequireAuth(r)
    BY <1>2 DEF RequireAuth, Arrives, Guarded, Public
  <2>3. QED
    BY <1>2, <2>1, <2>2
       DEF OnSessions, SessionStep, Login, RefreshToken, RefreshTokens, GetByTokenHash, FindOwner,
           RevokeOld, Logout, BlacklistToken, RevokeAll, Runs, At, Arrives
<1>3. ASSUME NEW r \in load.work, Acts(r) \/ (RequireAuth(r) /\ OnSessions(r)), r # q
      PROVE  held'[q] = held[q] /\ pc'[q] = pc[q]
  <2>1. (Moves(r) /\ Ticks(r)) \/ Registers(r)
    BY <1>1, <1>3, UsersMove, SessionsMove, AccountsMove, ExternalsMove DEF Acts
  <2>2. CASE Moves(r) /\ Ticks(r)
    BY <1>3, <2>2, OneMoves DEF CallsInv, Logins, Jobs
  <2>3. CASE Registers(r)
    <3>1. /\ Op(JobOf[r].verifier) = "verify"
          /\ \A p \in load.work \ {r, JobOf[r].verifier} : pc'[p] = pc[p] /\ held'[p] = held[p]
      BY <1>1, <1>3, <2>3, ExternalAssumption DEF Registers, StartVerifier, Jobs, JobOf, Op, CallsInv, CallTypes
    <3>2. QED
      BY <1>3, <3>1 DEF Logins, Jobs
  <2>4. QED
    BY <2>1, <2>2, <2>3
<1>4. ASSUME Acts(q) \/ (RequireAuth(q) /\ OnSessions(q))
      PROVE  \/ (LookUp(q) \/ CountGuess(q) \/ ForgetGuesses(q)) /\ OthersStay(q)
             \/ held'[q] = held[q] /\ pc[q] = "issue" /\ pc'[q] = "done"
  <2>1. Op(q) = "login" /\ q \in load.work
    BY DEF Logins, Jobs
  <2>2. OnSessions(q)
    BY <1>4, <2>1, Families DEF Acts, UserOps, AccountOps, ExternalOps
  <2>3. GenerateTokens(q) => held' = held /\ pc[q] = "issue" /\ pc'[q] = "done"
    BY <1>1, <2>1 DEF GenerateTokens, Runs, At, Goto
  <2>4. QED
    BY <1>2, <2>1, <2>2, <2>3
<1>5. Error => ~Calm'
  <2>1. errors \in Nat /\ (Calm' => errors' = errors)
    BY CallsStep DEF CallsInv, CallTypes
  <2>2. QED
    BY <2>1 DEF Error
<1>6. ASSUME NEW r \in load.work, Breaks(r, LoggedSteps)
      PROVE  /\ held'[q] = held[q]
             /\ pc'[q] = pc[q] \/ (Called(q) /\ ~HasEnded(q) /\ pc'[q] = "failed" /\ ~Calm')
  BY <1>1, <1>5, <1>6 DEF Breaks, Goto, Called, HasEnded
<1>7. ASSUME Killed
      PROVE  /\ held'[q] = held[q]
             /\ pc'[q] = pc[q] \/ (Called(q) /\ ~HasEnded(q) /\ pc'[q] = "failed" /\ ~Calm')
  BY <1>5, <1>7 DEF Killed, Logins, Jobs
<1>8. \/ \E r \in load.work : Acts(r) \/ (RequireAuth(r) /\ OnSessions(r))
      \/ Killed \/ \E r \in load.work : Breaks(r, LoggedSteps)
  BY DEF BackOfficeNext, Acts
<1>9. ASSUME NEW r \in load.work, Acts(r) \/ (RequireAuth(r) /\ OnSessions(r))
      PROVE  \/ (LookUp(q) \/ CountGuess(q) \/ ForgetGuesses(q)) /\ OthersStay(q)
             \/ held'[q] = held[q] /\ pc'[q] = pc[q]
             \/ held'[q] = held[q] /\ pc[q] = "issue" /\ pc'[q] = "done"
  <2>1. CASE r = q
    BY <1>4, <1>9, <2>1
  <2>2. CASE r # q
    BY <1>3, <1>9, <2>2
  <2>3. QED
    BY <2>1, <2>2
<1>10. QED
  BY <1>6, <1>7, <1>8, <1>9

-----------------------------------------------------------------------------
(* What a step does to the attempts and the lock of user u: nothing, ... *)
KeepsCount(u) ==
  \/ users'[u] = users[u]
  \/ /\ GetByID(u) /\ users'[u] \in UserCols
     /\ users'[u].attempts = users[u].attempts /\ users'[u].locked = users[u].locked

(* ... unlock, ... *)
Unlocked(r, u) ==
  /\ r \in Unlocks(u) /\ Op(r) = "unlock" /\ Called(r)
  /\ users'[u].attempts = 0 /\ ~users'[u].locked

(* ... begin the row, ... *)
Begun(u) ==
  /\ users[u] = NoUser /\ FirstRow[u] = NoUser
  /\ users'[u].attempts = 0 /\ ~users'[u].locked

(* ... or write the copy of a login. *)
Copied(r, u) ==
  /\ r \in Logins /\ held[r].id = u /\ GetByID(u)
  /\ (CountGuess(r) /\ pc[r] = "count") \/ (ForgetGuesses(r) /\ pc[r] = "reset")
  /\ users'[u].attempts = held[r].row.attempts /\ users'[u].locked = held[r].row.locked

(* An update of one row keeps all counts if the columns written do. *)
LEMMA UpdateKeepsCount ==
  ASSUME UsersInv, NEW u \in Clients, NEW row, Update(u, row), NEW v \in Clients,
         GetByID(u) => /\ row \in UserCols
                       /\ row.attempts = users[u].attempts /\ row.locked = users[u].locked
  PROVE  KeepsCount(v)
<1>1. users' = [users EXCEPT ![u] = IF GetByID(u) THEN row ELSE users[u]]
  BY DEF Update
<1>2. users'[v] = users[v] \/ (v = u /\ GetByID(u) /\ users'[v] = row)
  BY <1>1 DEF UsersInv
<1>3. QED
  BY <1>2 DEF KeepsCount

(* Of the requests about users, an unlock resets the count, and a row that *)
(* is inserted begins with none.                                           *)
LEMMA CountsWritten ==
  ASSUME CallsInv, UsersInv, NEW r \in load.work, OnUsers(r), NEW u \in Clients
  PROVE  KeepsCount(u) \/ Unlocked(r, u) \/ Begun(u)
<1>1. Who(r) \in Clients /\ JobOf[r].password \in Passwords /\ JobOf[r].email \in Emails /\ r \in Requests
  BY CallAssumption, UserAssumption DEF CallsInv, CallTypes
<1> DEFINE row == users[Who(r)]
<1>2. GetByID(Who(r)) => row \in UserCols
  BY <1>1, UpdatesKeepTypes
<1> HIDE DEF row
<1>3. CASE UNCHANGED users
  BY <1>3 DEF KeepsCount
<1>4. CASE InsertNewUser(r)
  <2>1. r \in Newcomers /\ pc[r] = "insert user"
    BY <1>4 DEF InsertNewUser, Runs, At, Newcomers, Jobs
  <2>2. users[Who(r)] = NoUser /\ FirstRow[Who(r)] = NoUser
    BY <1>1, <2>1, UserAssumption DEF UsersInv, Registering, Newcomers, Jobs
  <2>3. ASSUME users' = [users EXCEPT ![Who(r)] = NewUser(JobOf[r].email, JobOf[r].password)]
        PROVE  users'[u] = users[u] \/ (u = Who(r) /\ users'[u].attempts = 0 /\ ~users'[u].locked)
    <3>1. users'[u] = users[u] \/ (u = Who(r) /\ users'[u] = NewUser(JobOf[r].email, JobOf[r].password))
      BY <2>3 DEF UsersInv
    <3>2. QED
      BY <3>1 DEF NewUser
  <2>4. QED
    BY <1>3, <1>4, <2>2, <2>3 DEF InsertNewUser, InsertUser, KeepsCount, Begun
<1>5. ASSUME NEW new, Update(Who(r), new),
             GetByID(Who(r)) => new \in UserCols /\ new.attempts = row.attempts /\ new.locked = row.locked
      PROVE  KeepsCount(u)
  BY <1>1, <1>5, UpdateKeepsCount DEF row
<1>6. GetByID(Who(r)) =>
        \A new \in {[row EXCEPT !.hash = JobOf[r].password], [row EXCEPT !.deleted = TRUE],
                    [row EXCEPT !.email = JobOf[r].email]} :
          new \in UserCols /\ new.attempts = row.attempts /\ new.locked = row.locked
  BY <1>1, <1>2 DEF UserCols
<1>7. CASE \/ UpdatePasswordHash(Who(r), JobOf[r].password) \/ DeleteUserRow(Who(r))
           \/ UpdateEmail(Who(r), JobOf[r].email)
  BY <1>5, <1>6, <1>7 DEF UpdatePasswordHash, DeleteUserRow, UpdateEmail, row
<1>8. CASE ResetFailedLoginAttempts(Who(r)) /\ Op(r) = "unlock" /\ pc[r] = "unlock"
  <2>1. CASE u = Who(r) /\ GetByID(u)
    <3>1. users'[u] = [row EXCEPT !.attempts = 0, !.locked = FALSE]
      BY <1>1, <1>8, <2>1 DEF UsersInv, ResetFailedLoginAttempts, Update, row
    <3>2. users'[u].attempts = 0 /\ ~users'[u].locked
      BY <1>2, <2>1, <3>1 DEF UserCols
    <3>3. QED
      BY <1>8, <2>1, <3>2 DEF Unlocked, Unlocks, Jobs, Called
  <2>2. CASE u # Who(r) \/ ~GetByID(u)
    BY <1>1, <1>8, <2>2 DEF UsersInv, ResetFailedLoginAttempts, Update, KeepsCount
  <2>3. QED
    BY <2>1, <2>2
<1>9. \/ UNCHANGED users \/ InsertNewUser(r)
      \/ UpdatePasswordHash(Who(r), JobOf[r].password) \/ DeleteUserRow(Who(r))
      \/ UpdateEmail(Who(r), JobOf[r].email)
      \/ ResetFailedLoginAttempts(Who(r)) /\ Op(r) = "unlock" /\ pc[r] = "unlock"
  BY DEF OnUsers, Register, AddCustomer, CreateCustomer, GetMyProfile, GetProfileOf, GetCustomerProfile,
         CheckEmail, UpdateMyEmail, UpdateMyPassword, ResetCustomerPassword, DeleteOwner, UnlockUser,
         DeleteUser, UpdateCustomerEmail, CheckNewEmail, FindForEmail, WriteEmail, CustomerUpdatePassword,
         AdminResetPassword, FindForPassword, WritePassword, Find, Runs, At
<1>10. QED
  BY <1>3, <1>4, <1>7, <1>8, <1>9

(* Of the requests of sessions, logins write the copies they hold. *)
LEMMA CountsCopied ==
  ASSUME CallsInv, UsersInv, NEW r \in load.work, OnSessions(r), NEW u \in Clients
  PROVE  KeepsCount(u) \/ Copied(r, u)
<1>1. CASE UNCHANGED users
  BY <1>1 DEF KeepsCount
<1>2. ASSUME (CountGuess(r) /\ pc[r] = "count") \/ (ForgetGuesses(r) /\ pc[r] = "reset"), Op(r) = "login",
             UpdateFailedLoginAttempts(held[r].id, held[r].row)
      PROVE  KeepsCount(u) \/ Copied(r, u)
  <2>1. r \in Logins /\ held[r].id \in Clients
    BY <1>2 DEF UsersInv, Logins, Jobs
  <2>2. users' = [users EXCEPT ![held[r].id] =
                    IF GetByID(held[r].id)
                      THEN [users[held[r].id] EXCEPT !.attempts = held[r].row.attempts,
                                                    !.locked = held[r].row.locked]
                      ELSE users[held[r].id]]
    BY <1>2 DEF UpdateFailedLoginAttempts, Update
  <2>3. CASE u = held[r].id /\ GetByID(u)
    <3>1. users'[u] = [users[u] EXCEPT !.attempts = held[r].row.attempts, !.locked = held[r].row.locked]
      BY <2>2, <2>3 DEF UsersInv
    <3>2. users[u] \in UserCols
      BY <2>3, UpdatesKeepTypes
    <3>3. users'[u].attempts = held[r].row.attempts /\ users'[u].locked = held[r].row.locked
      BY <3>1, <3>2 DEF UserCols
    <3>4. QED
      BY <1>2, <2>1, <2>3, <3>3 DEF Copied
  <2>4. CASE u # held[r].id \/ ~GetByID(u)
    BY <2>1, <2>2, <2>4 DEF UsersInv, KeepsCount
  <2>5. QED
    BY <2>3, <2>4
<1>3. \/ UNCHANGED users
      \/ /\ (CountGuess(r) /\ pc[r] = "count") \/ (ForgetGuesses(r) /\ pc[r] = "reset")
         /\ Op(r) = "login" /\ UpdateFailedLoginAttempts(held[r].id, held[r].row)
  BY DEF OnSessions, SessionStep, RequireAuth, Login, LookUp, CountGuess, ForgetGuesses, GenerateTokens,
         RefreshToken, RefreshTokens, GetByTokenHash, FindOwner, RevokeOld, Logout, BlacklistToken,
         RevokeAll, Runs, At, Logged, sessionTables
<1>4. QED
  BY <1>1, <1>2, <1>3

(* Every step does one of the four to user u. *)
LEMMA CountStep ==
  ASSUME CallsInv, UsersInv, BackOfficeNext, NEW u \in Clients
  PROVE  \/ KeepsCount(u) \/ Begun(u)
         \/ \E r \in load.work : Unlocked(r, u) \/ Copied(r, u)
<1>1. CASE UNCHANGED users
  BY <1>1 DEF KeepsCount
<1>2. QED
  BY <1>1, CountsWritten, CountsCopied, Families DEF BackOfficeNext, tables

-----------------------------------------------------------------------------
(* Who holds a user has been called, and goes on holding it. *)
LEMMA HoldersStay ==
  ASSUME CallsInv, BackOfficeNext, NEW u \in Clients, NEW q \in Logins, held[q].id = u
  PROVE  Called(q) /\ held'[q] = held[q]
<1>1. Called(q)
  BY UserAssumption DEF CallsInv, CallsInOrder, Logins, Jobs
<1>2. ~LookUp(q)
  BY <1>1 DEF LookUp, Arrives, Called
<1>3. CountGuess(q) \/ ForgetGuesses(q) => held'[q] = held[q]
  BY DEF CountGuess, ForgetGuesses, Goto
<1>4. QED
  BY <1>1, <1>2, <1>3, LoginSteps

(* The wrong passwords for a user only become more. *)
LEMMA GuessesGrow ==
  ASSUME CallsInv, BackOfficeNext, NEW u \in Clients
  PROVE  /\ Guesses(u) \subseteq Guesses(u)' /\ Counted(u) \in Nat /\ Counted(u) <= Counted(u)'
         /\ FirstAttempts(u)' = FirstAttempts(u) /\ FirstAttempts(u) \in Nat
         /\ Counted(u)' \in Nat
         /\ \A q \in Guesses(u)' : q \notin Guesses(u) => Counted(u) + 1 <= Counted(u)'
<1>1. /\ UNCHANGED load /\ Logins' = Logins /\ IsFiniteSet(load.work) /\ Logins \subseteq load.work
      /\ pc = [q \in load.work |-> pc[q]]
  BY CallsStep, CallAssumption DEF CallsInv, CallTypes, Logins, Jobs
<1>2. FirstAttempts(u)' = FirstAttempts(u) /\ FirstAttempts(u) \in Nat
  BY <1>1, UserAssumption DEF FirstAttempts, CallsInv, CallTypes
<1>3. ASSUME NEW q \in Guesses(u) PROVE q \in Guesses(u)'
  <2>1. q \in Logins /\ held[q].id = u /\ pc[q] \in {"count", "wrong", "failed"}
    BY <1>3 DEF Guesses, Logins
  <2>2. held'[q] = held[q] /\ Called(q)
    BY <2>1, HoldersStay
  <2>3. ~LookUp(q) /\ ~ForgetGuesses(q)
    BY <2>1 DEF LookUp, Arrives, ForgetGuesses, At
  <2>4. CountGuess(q) => pc'[q] = "wrong"
    BY <1>1, <2>1 DEF CountGuess, Goto
  <2>5. pc'[q] \in {"count", "wrong", "failed"}
    BY <2>1, <2>3, <2>4, LoginSteps
  <2>6. QED
    BY <1>1, <2>1, <2>2, <2>5 DEF Guesses, Logins
<1>4. Guesses(u) \subseteq load.work /\ Guesses(u)' \subseteq load.work
  BY <1>1 DEF Guesses, Logins
<1>5. IsFiniteSet(Guesses(u)) /\ IsFiniteSet(Guesses(u)')
  BY <1>1, <1>4, FS_Subset
<1>6. /\ Cardinality(Guesses(u)) \in Nat /\ Cardinality(Guesses(u)') \in Nat
      /\ Cardinality(Guesses(u)) <= Cardinality(Guesses(u)')
  BY <1>3, <1>5, FS_CardinalityType, FS_Subset
<1>7. Cardinality(Guesses(u))' = Cardinality(Guesses(u)')
  OBVIOUS
<1>8. ASSUME NEW q \in Guesses(u)', q \notin Guesses(u)
      PROVE  Cardinality(Guesses(u)) + 1 <= Cardinality(Guesses(u)')
  <2>1. Guesses(u) \cup {q} \subseteq Guesses(u)'
    BY <1>3, <1>8
  <2>2. Cardinality(Guesses(u) \cup {q}) = Cardinality(Guesses(u)) + 1
    BY <1>5, <1>8, FS_AddElement
  <2>3. Cardinality(Guesses(u) \cup {q}) <= Cardinality(Guesses(u)')
    BY <1>5, <2>1, FS_Subset
  <2>4. QED
    BY <2>2, <2>3
<1>9. QED
  BY <1>2, <1>3, <1>6, <1>7, <1>8 DEF Counted

(* A login that finds u gets past the lock and takes a copy. *)
LEMMA LookUpFinds ==
  ASSUME CallsInv, BackOfficeNext, UsersInv, NEW u \in Clients, NEW q \in Logins,
         LookUp(q), held'[q].id = u
  PROVE  /\ ~Called(q) /\ Called(q)' /\ before'[q] = Finished
         /\ GetByID(u) /\ ~users[u].locked /\ UNCHANGED <<users, errors>>
         /\ \/ pc'[q] = "reset" /\ held'[q].row.attempts = 0 /\ ~held'[q].row.locked
            \/ /\ pc'[q] = "count" /\ held'[q].row.attempts = users[u].attempts + 1
               /\ held'[q].row.locked <=> users[u].attempts + 1 >= MaxFailedLoginAttempts
<1>1. /\ q \in load.work /\ ~Called(q) /\ held[q] = Nothing /\ Op(q) # "verify"
      /\ UNCHANGED <<users, errors>>
  BY DEF LookUp, Arrives, Called, CallsInv, CallsInOrder, Logins, Jobs, sessionTables
<1>2. held'[q] # held[q]
  BY <1>1, UserAssumption
<1>3. PICK v \in GetByEmail(JobOf[q].email) :
        /\ ~users[v].locked
        /\ \/ pc'[q] = "reset" /\ held'[q] = Copy(v, ResetFailedAttempts(users[v]))
           \/ pc'[q] = "count" /\ held'[q] = Copy(v, IncrementFailedAttempts(users[v]))
  BY <1>1, <1>2, LookUpReads
<1>4. v = u /\ GetByID(u)
  BY <1>3 DEF Copy, GetByEmail
<1>5. users[u] \in UserCols /\ ~users[u].locked
  BY <1>3, <1>4, UpdatesKeepTypes
<1>6. Called(q)' /\ before'[q] = Finished
  BY <1>1, <1>3, CallsStep DEF Goes, Called
<1>7. /\ ResetFailedAttempts(users[u]).attempts = 0
      /\ ~ResetFailedAttempts(users[u]).locked
      /\ IncrementFailedAttempts(users[u]).attempts = users[u].attempts + 1
      /\ IncrementFailedAttempts(users[u]).locked <=> users[u].attempts + 1 >= MaxFailedLoginAttempts
  BY <1>5 DEF ResetFailedAttempts, IncrementFailedAttempts, UserCols
<1>8. \A row : Copy(u, row).row = row
  BY DEF Copy
<1>9. QED
  BY <1>1, <1>3, <1>4, <1>5, <1>6, <1>7, <1>8

(* A row that is there stays there. *)
LEMMA RowsStay ==
  ASSUME CallsInv, BackOfficeNext, UsersInv, NEW u \in Clients, users[u] # NoUser
  PROVE  users'[u] # NoUser /\ (~GetByID(u) => users'[u] = users[u])
<1>1. RowStep(u)
  BY EveryStepOnUsers DEF UsersStep
<1>2. QED
  BY <1>1, NoUserIsNoRow DEF RowStep

(* No step breaks GuessesInv: what is written or copied has been explained. *)
LEMMA GuessesInvStep ==
  ASSUME CallsInv, BackOfficeNext, UsersInv, GuessesInv
  PROVE  GuessesInv'
<1>1. Logins' = Logins
  BY CallsStep DEF Logins, Jobs
<1>2. MaxFailedLoginAttempts \in Nat \ {0}
  BY UserAssumption
<1>3. ASSUME NEW u \in Clients, NEW n \in Nat, NEW m \in Nat, n <= m, NEW row \in UserCols, Explains(n, row)
      PROVE  Explains(m, row)
  BY <1>2, <1>3 DEF Explains, UserCols
<1>4. ASSUME NEW u \in Clients, users'[u] # NoUser
      PROVE  Explains(Counted(u)', users'[u])
  <2>1. /\ Counted(u) \in Nat /\ Counted(u)' \in Nat /\ Counted(u) <= Counted(u)'
    BY GuessesGrow
  <2>2. CASE KeepsCount(u)
    <3>1. users[u] # NoUser /\ users[u] \in UserCols
      BY <1>4, <2>2 DEF KeepsCount, UsersInv, GetByID
    <3>2. Explains(Counted(u)', users[u])
      BY <1>3, <2>1, <3>1 DEF GuessesInv
    <3>3. QED
      BY <2>2, <3>2 DEF KeepsCount, Explains
  <2>3. CASE Begun(u) \/ \E r \in load.work : Unlocked(r, u)
    BY <2>1, <2>3 DEF Begun, Unlocked, Explains
  <2>4. ASSUME NEW r \in load.work, Copied(r, u) PROVE Explains(Counted(u)', users'[u])
    <3>1. r \in Logins /\ held[r].id = u /\ pc[r] \in {"count", "reset"} /\ held[r].row \in UserCols
      BY <2>4 DEF Copied, UsersInv, Logins
    <3>2. Explains(Counted(u)', held[r].row)
      BY <1>3, <2>1, <3>1 DEF GuessesInv
    <3>3. QED
      BY <2>4, <3>2 DEF Copied, Explains
  <2>5. QED
    BY <2>2, <2>3, <2>4, CountStep
<1>5. ASSUME NEW u \in Clients, NEW q \in Logins, held'[q].id = u
      PROVE  /\ users'[u] # NoUser
             /\ pc'[q] \in {"count", "reset"} => Explains(Counted(u)', held'[q].row)
  <2>1. /\ Counted(u) \in Nat /\ Counted(u)' \in Nat /\ Counted(u) <= Counted(u)'
        /\ \A x \in Guesses(u)' : x \notin Guesses(u) => Counted(u) + 1 <= Counted(u)'
    BY GuessesGrow
  <2>2. CASE LookUp(q)
    <3>1. /\ ~Called(q) /\ GetByID(u) /\ ~users[u].locked
          /\ \/ pc'[q] = "reset" /\ held'[q].row.attempts = 0 /\ ~held'[q].row.locked
             \/ /\ pc'[q] = "count" /\ held'[q].row.attempts = users[u].attempts + 1
                /\ held'[q].row.locked <=> users[u].attempts + 1 >= MaxFailedLoginAttempts
      BY <1>5, <2>2, LookUpFinds
    <3>2. users'[u] # NoUser
      BY <3>1, RowsStay DEF GetByID
    <3>3. users[u].attempts \in Nat /\ users[u].attempts <= Counted(u)
      BY <3>1, UpdatesKeepTypes DEF GuessesInv, Explains, UserCols, GetByID
    <3>4. pc'[q] = "count" => Counted(u) + 1 <= Counted(u)'
      BY <1>1, <1>5, <2>1, <3>1 DEF Guesses, Logins, Called
    <3>5. QED
      BY <1>2, <2>1, <3>1, <3>2, <3>3, <3>4 DEF Explains
  <2>3. CASE ~LookUp(q)
    <3>1. held'[q] = held[q] /\ (pc'[q] \in {"count", "reset"} => pc'[q] = pc[q])
      BY <2>3, LoginsReadOnce DEF Logins
    <3>2. users'[u] # NoUser
      BY <1>5, <3>1, RowsStay DEF GuessesInv
    <3>3. pc'[q] \in {"count", "reset"} => held[q].row \in UserCols /\ Explains(Counted(u), held[q].row)
      BY <1>5, <3>1 DEF GuessesInv, UsersInv, Logins
    <3>4. QED
      BY <1>3, <2>1, <3>1, <3>2, <3>3
  <2>4. QED
    BY <2>2, <2>3
<1>6. QED
  BY <1>1, <1>4, <1>5 DEF GuessesInv

-----------------------------------------------------------------------------
(* As long as only wrong passwords come for u, nobody else comes for u, and *)
(* those that have come stay as they are but for being counted.            *)
LEMMA TriesStay ==
  ASSUME CallsInv, BackOfficeNext, UsersInv, NEW u \in Clients, Calm', OnlyMisses(u)'
  PROVE  /\ Calm /\ OnlyMisses(u)
         /\ \A x \in Tries(u) : /\ x \in Logins /\ held[x].id = u /\ pc[x] \in {"count", "wrong"}
                                /\ x \in Tries(u)' /\ held'[x] = held[x]
                                /\ pc'[x] = pc[x] \/ CountGuess(x)
         /\ \A x \in Tries(u)' : x \notin Tries(u) =>
              x \in Logins /\ LookUp(x) /\ held'[x].id = u /\ pc'[x] = "count"
<1>1. /\ UNCHANGED load /\ Calm /\ \A q \in load.work : Goes(q)
      /\ Logins' = Logins /\ Logins \subseteq load.work
      /\ Jobs({"unlock"})' = Jobs({"unlock"}) /\ Jobs({"unlock"}) \subseteq load.work
  BY CallsStep DEF Logins, Jobs
<1>2. \A x \in Tries(u)' : x \in Logins /\ held'[x].id = u /\ pc'[x] \in {"count", "wrong"}
  BY <1>1 DEF OnlyMisses, Guesses, Logins
<1>3. ASSUME NEW x \in Tries(u)
      PROVE  /\ x \in Logins /\ held[x].id = u /\ pc[x] \in {"count", "wrong"}
             /\ x \in Tries(u)' /\ held'[x] = held[x] /\ before'[x] = before[x]
             /\ pc'[x] = pc[x] \/ CountGuess(x)
  <2>1. Called(x) /\ x \in load.work /\ Called(x)' /\ before'[x] = before[x]
    BY <1>1, <1>3 DEF Tries, Unlocks, Goes, Logins
  <2>2. CASE x \in Jobs({"unlock"}) /\ Who(x) = u
    <3>1. x \in Tries(u)'
      BY <1>1, <2>1, <2>2 DEF Tries, Unlocks
    <3>2. x \notin Logins
      BY <2>2 DEF Logins, Jobs
    <3>3. QED
      BY <1>2, <3>1, <3>2
  <2>3. CASE x \in Logins /\ held[x].id = u
    <3>1. held'[x] = held[x]
      BY <2>3, HoldersStay
    <3>2. x \in Tries(u)'
      BY <1>1, <2>1, <2>3, <3>1 DEF Tries, Unlocks, Logins
    <3>3. pc'[x] \in {"count", "wrong"}
      BY <1>2, <3>2
    <3>4. ~LookUp(x)
      BY <2>1 DEF LookUp, Arrives, Called
    <3>5. pc[x] \in {"count", "wrong"}
      BY <2>3, <3>3, <3>4, LoginsGoOn DEF Logins
    <3>6. pc'[x] = pc[x] \/ CountGuess(x)
      BY <2>3, <3>3, <3>4, <3>5, LoginSteps DEF ForgetGuesses, At
    <3>7. QED
      BY <2>1, <2>3, <3>1, <3>2, <3>5, <3>6
  <2>4. QED
    BY <1>3, <2>2, <2>3 DEF Tries, Unlocks, Logins
<1>4. OnlyMisses(u)
  <2>1. \A x \in Tries(u) : x \in Guesses(u)
    BY <1>3 DEF Guesses, Logins
  <2>2. InOrder(Tries(u))
    <3>1. InOrder(Tries(u))'
      BY DEF OnlyMisses
    <3>2. QED
      BY <1>3, <3>1 DEF InOrder
  <2>3. QED
    BY <1>3, <2>1, <2>2 DEF OnlyMisses
<1>5. ASSUME NEW x \in Tries(u)', x \notin Tries(u)
      PROVE  x \in Logins /\ LookUp(x) /\ held'[x].id = u /\ pc'[x] = "count"
  <2>1. x \in Logins /\ held'[x].id = u /\ pc'[x] \in {"count", "wrong"}
    BY <1>2, <1>5
  <2>2. LookUp(x)
    <3>1. ~(held[x].id = u)
      BY <1>5, <2>1, HoldersStay DEF Tries, Unlocks, Logins
    <3>2. QED
      BY <2>1, <3>1, LoginsGoOn DEF Logins
  <2>3. QED
    BY <2>1, <2>2, LookUpFinds
<1>6. QED
  BY <1>1, <1>3, <1>4, <1>5

(* No step breaks MissesInv. *)
LEMMA MissesStep ==
  ASSUME CallsInv, BackOfficeNext, UsersInv, GuessesInv, MissesInv
  PROVE  MissesInv'
<1> SUFFICES ASSUME NEW u \in Clients, Calm', OnlyMisses(u)', GetByID(u)'
             PROVE  MissesCount(u)'
  BY DEF MissesInv
<1> DEFINE k == FirstAttempts(u) + Cardinality(Missed(u))
<1>1. /\ UNCHANGED load /\ errors' = errors /\ Logins' = Logins /\ Logins \subseteq load.work
      /\ IsFiniteSet(load.work) /\ errors \in Nat
      /\ pc = [q \in load.work |-> pc[q]]
  BY CallsStep, CallAssumption DEF CallsInv, CallTypes, Logins, Jobs
<1>2. /\ Calm /\ OnlyMisses(u)
      /\ \A x \in Tries(u) : /\ x \in Logins /\ held[x].id = u /\ pc[x] \in {"count", "wrong"}
                             /\ x \in Tries(u)' /\ held'[x] = held[x]
                             /\ pc'[x] = pc[x] \/ CountGuess(x)
      /\ \A x \in Tries(u)' : x \notin Tries(u) =>
           x \in Logins /\ LookUp(x) /\ held'[x].id = u /\ pc'[x] = "count"
  BY TriesStay
<1>3. GetByID(u) => MissesCount(u)
  BY <1>2 DEF MissesInv
<1>4. /\ FirstAttempts(u)' = FirstAttempts(u) /\ FirstAttempts(u) \in Nat
      /\ MaxFailedLoginAttempts \in Nat \ {0}
  BY GuessesGrow, UserAssumption
<1>5. /\ Missed(u) = {x \in Tries(u) : pc[x] = "wrong"}
      /\ Missed(u)' = {x \in Tries(u)' : pc'[x] = "wrong"}
  <2>1. \A w \in Missed(u) : w \in Tries(u)
    BY DEF Missed, Guesses, Tries, Unlocks, Called
  <2>2. \A w \in Missed(u)' : w \in Tries(u)'
    BY DEF Missed, Guesses, Tries, Unlocks, Called
  <2>3. \A x \in Tries(u) : x \in Guesses(u)
    BY <1>2 DEF OnlyMisses
  <2>4. \A x \in Tries(u)' : x \in Guesses(u)'
    BY DEF OnlyMisses
  <2>5. QED
    BY <2>1, <2>2, <2>3, <2>4 DEF Missed
<1>6. IsFiniteSet(Missed(u)) /\ Cardinality(Missed(u)) \in Nat
  BY <1>1, <1>2, <1>5, FS_Subset, FS_CardinalityType
<1>7. \A r \in Logins : (LookUp(r) /\ held'[r].id = u) \/ CountGuess(r) => OthersStay(r)
  <2> SUFFICES ASSUME NEW r \in Logins, (LookUp(r) /\ held'[r].id = u) \/ CountGuess(r)
               PROVE  OthersStay(r)
    OBVIOUS
  <2>1. CASE LookUp(r) /\ held'[r].id = u
    <3>1. pc[r] = "new" /\ held'[r] # held[r]
      BY <2>1, LookUpFinds, HoldersStay DEF Called
    <3>2. QED
      BY <3>1, LoginSteps DEF CountGuess, ForgetGuesses, At, Called
  <2>2. CASE CountGuess(r)
    <3>1. pc[r] = "count" /\ pc'[r] = "wrong"
      BY <1>1, <2>2 DEF CountGuess, At, Goto
    <3>2. QED
      BY <3>1, LoginSteps DEF LookUp, Arrives, ForgetGuesses, At
  <2>3. QED
    BY <2>1, <2>2
<1>8. ASSUME NEW x \in Logins, LookUp(x), held'[x].id = u PROVE MissesCount(u)'
  <2>1. /\ pc[x] = "new" /\ GetByID(u) /\ ~users[u].locked /\ users' = users
        /\ pc'[x] = "count" => /\ held'[x].row.attempts = users[u].attempts + 1
                               /\ held'[x].row.locked <=> users[u].attempts + 1 >= MaxFailedLoginAttempts
    BY <1>8, LookUpFinds DEF Called
  <2>2. OthersStay(x)
    BY <1>7, <1>8
  <2>3. \A w \in Tries(u) : w # x /\ pc'[w] = pc[w]
    BY <1>1, <1>2, <2>1, <2>2 DEF OthersStay
  <2>4. \A w \in Tries(u)' : w \notin Tries(u) => w = x
    <3>1. \A w \in Tries(u)' : w \notin Tries(u) => w \in Logins /\ pc[w] = "new" /\ pc'[w] = "count"
      BY <1>2 DEF LookUp, Arrives
    <3>2. \A w \in Logins : w # x => pc'[w] = pc[w]
      BY <1>1, <2>2 DEF OthersStay
    <3>3. QED
      BY <3>1, <3>2
  <2>5. Missed(u)' = Missed(u)
    BY <1>2, <1>5, <2>3, <2>4
  <2>6. users[u].attempts \in Nat
    BY <2>1, UpdatesKeepTypes DEF UserCols
  <2>7. MissesCount(u)
    BY <1>3, <2>1
  <2>8. k <= users[u].attempts /\ k < MaxFailedLoginAttempts
    BY <2>1, <2>7 DEF MissesCount
  <2>9. ASSUME NEW w \in Tries(u)', pc'[w] = "count"
        PROVE  /\ k + 1 <= held'[w].row.attempts
               /\ held'[w].row.locked \/ k + 1 < MaxFailedLoginAttempts
    <3>1. CASE w = x
      BY <1>4, <1>6, <2>1, <2>6, <2>8, <2>9, <3>1
    <3>2. CASE w \in Tries(u)
      BY <1>2, <2>3, <2>7, <2>9, <3>2 DEF MissesCount
    <3>3. QED
      BY <2>4, <3>1, <3>2
  <2>10. QED
    BY <1>4, <2>1, <2>5, <2>8, <2>9 DEF MissesCount
<1>9. ASSUME NEW r \in Logins, CountGuess(r), held[r].id = u PROVE MissesCount(u)'
  <2>1. pc[r] = "count" /\ pc'[r] = "wrong" /\ OthersStay(r) /\ r \in Tries(u)
    BY <1>1, <1>7, <1>9 DEF CountGuess, At, Goto, Tries, Unlocks, Called, Logins
  <2>2. GetByID(u)
    BY <1>9, RowsStay DEF GuessesInv, GetByID
  <2>3. users'[u].attempts = held[r].row.attempts /\ users'[u].locked = held[r].row.locked
    <3>1. UpdateFailedLoginAttempts(u, held[r].row)
      BY <1>1, <1>9 DEF CountGuess, Logged, Error
    <3>2. users'[u] = [users[u] EXCEPT !.attempts = held[r].row.attempts, !.locked = held[r].row.locked]
      BY <2>2, <3>1 DEF UpdateFailedLoginAttempts, Update, UsersInv
    <3>3. QED
      BY <2>2, <3>2, UpdatesKeepTypes DEF UserCols
  <2>4. MissesCount(u)
    BY <1>3, <2>2
  <2>5. /\ k + 1 <= held[r].row.attempts
        /\ held[r].row.locked \/ k + 1 < MaxFailedLoginAttempts
    BY <2>1, <2>4 DEF MissesCount
  <2>6. Tries(u)' = Tries(u)
    <3>1. \A x \in Tries(u)' : x \notin Tries(u) => x \in Logins /\ x # r /\ pc'[x] # pc[x]
      BY <1>2, <2>1 DEF LookUp, Arrives
    <3>2. QED
      BY <1>1, <1>2, <2>1, <3>1 DEF OthersStay
  <2>7. \A w \in Tries(u) : w # r => pc'[w] = pc[w]
    BY <1>1, <1>2, <2>1 DEF OthersStay
  <2>8. Missed(u)' = Missed(u) \cup {r} /\ r \notin Missed(u)
    BY <1>5, <2>1, <2>6, <2>7
  <2>9. Cardinality(Missed(u)') = Cardinality(Missed(u)) + 1
    BY <1>6, <2>8, FS_AddElement
  <2>10. \A w \in Tries(u)' : pc'[w] # "count"
    <3> SUFFICES ASSUME NEW w \in Tries(u), pc'[w] = "count" PROVE FALSE
      BY <2>6
    <3>1. w # r /\ pc[w] = "count"
      BY <2>1, <2>7
    <3>2. w \in before[r] \/ r \in before[w]
      BY <1>2, <2>1, <3>1 DEF OnlyMisses, InOrder
    <3>3. HasEnded(w) \/ HasEnded(r)
      BY <1>1, <1>2, <3>2 DEF CallsInv, CallsInOrder
    <3>4. QED
      BY <2>1, <3>1, <3>3 DEF HasEnded, Ended
  <2>11. (k + 1 <= users'[u].attempts /\ k + 1 < MaxFailedLoginAttempts) \/ users'[u].locked
    BY <2>3, <2>5
  <2>12. FirstAttempts(u)' + Cardinality(Missed(u)') = k + 1
    BY <1>4, <1>6, <2>9
  <2>13. QED
    BY <2>10, <2>11, <2>12 DEF MissesCount
<1>10. ASSUME \A x \in Logins : ~(LookUp(x) /\ held'[x].id = u),
              \A r \in Logins : ~(CountGuess(r) /\ held[r].id = u)
       PROVE  MissesCount(u)'
  <2>1. Tries(u)' = Tries(u) /\ \A w \in Tries(u) : pc'[w] = pc[w] /\ held'[w] = held[w]
    BY <1>2, <1>10
  <2>2. Missed(u)' = Missed(u)
    BY <1>5, <2>1
  <2>3. CASE Begun(u)
    <3>1. \A x \in Tries(u) : FALSE
      BY <1>2, <2>3 DEF GuessesInv, Begun
    <3>2. Missed(u)' = {} /\ Tries(u)' = {}
      BY <1>5, <2>1, <3>1
    <3>3. FirstAttempts(u)' = 0 /\ Cardinality(Missed(u)') = 0
      BY <1>4, <2>3, <3>2, FS_EmptySet DEF Begun, FirstAttempts
    <3>4. QED
      BY <1>4, <2>3, <3>2, <3>3 DEF MissesCount, Begun
  <2>4. ASSUME NEW r \in load.work, Unlocked(r, u) \/ Copied(r, u)
        PROVE  FALSE
    <3>1. r \in Tries(u)
      BY <2>4 DEF Unlocked, Copied, Tries, Unlocks, Called, Logins
    <3>2. r \in Logins /\ pc[r] \in {"count", "wrong"}
      BY <1>2, <3>1
    <3>3. ~Unlocked(r, u)
      BY <3>2 DEF Unlocked, Logins, Jobs
    <3>4. ~Copied(r, u)
      BY <1>10, <3>2 DEF Copied
    <3>5. QED
      BY <2>4, <3>3, <3>4
  <2>5. CASE KeepsCount(u)
    <3>1. GetByID(u) /\ users'[u].attempts = users[u].attempts /\ users'[u].locked = users[u].locked
      BY <2>5 DEF KeepsCount, GetByID
    <3>2. MissesCount(u)
      BY <1>3, <3>1
    <3>3. QED
      BY <1>4, <2>1, <2>2, <3>1, <3>2 DEF MissesCount
  <2>6. QED
    BY <2>3, <2>4, <2>5, CountStep
<1>11. QED
  BY <1>8, <1>9, <1>10

(* No step breaks InTime: at its lookup the streak before a login is all   *)
(* that has come for u, and nothing joins that streak later.               *)
LEMMA InTimeStep ==
  ASSUME CallsInv, BackOfficeNext, UsersInv, MissesInv, InTime
  PROVE  InTime'
<1>1. /\ CallsInv' /\ UNCHANGED load /\ \A q \in load.work : Goes(q) /\ Calm' => Calm
      /\ Logins' = Logins /\ Logins \subseteq load.work
      /\ Jobs({"unlock"})' = Jobs({"unlock"}) /\ Jobs({"unlock"}) \subseteq load.work
  BY CallsStep DEF Logins, Jobs
<1> SUFFICES ASSUME NEW g \in Logins, NEW u \in Clients, Calm',
                    pc'[g] \in {"reset", "issue", "done"}, held'[g].id = u,
                    NEW W \in SUBSET load.work, Streak(W, g, u)'
             PROVE  FirstAttempts(u) + Cardinality(W) < MaxFailedLoginAttempts
  BY <1>1, GuessesGrow DEF InTime
<1>2. Calm /\ \A q \in load.work : Goes(q)
  BY CallsStep
<1>3. /\ \A w \in W : w \in Guesses(u)' /\ w \in before'[g] /\ pc'[w] = "wrong"
      /\ InOrder(W)'
      /\ \A x \in Unlocks(u)' \ (W \cup {g}) : Called(x)' => g \in before'[x]
  BY DEF Streak
<1>4. \A x \in Unlocks(u) : Called(x) => x \in Unlocks(u)' /\ Called(x)' /\ before'[x] = before[x]
  <2>1. \A x \in Logins : held[x].id = u => held'[x] = held[x]
    BY HoldersStay
  <2>2. QED
    BY <1>1, <1>2, <2>1 DEF Unlocks, Logins, Goes
<1>5. ASSUME NEW w \in W, HasEnded(w)
      PROVE  w \in Guesses(u) /\ pc[w] = "wrong" /\ Called(w) /\ before'[w] = before[w]
  <2>1. pc'[w] = pc[w] /\ held'[w] = held[w] /\ Called(w) /\ before'[w] = before[w]
    BY <1>2, <1>5 DEF Goes, HasEnded, Ended, Called
  <2>2. QED
    BY <1>1, <1>3, <2>1 DEF Guesses, Logins
<1>6. CASE LookUp(g)
  <2>1. ~Called(g) /\ before'[g] = Finished /\ GetByID(u) /\ ~users[u].locked
    BY <1>6, LookUpFinds
  <2>2. \A w \in W : /\ HasEnded(w) /\ w \in Guesses(u) /\ pc[w] = "wrong" /\ Called(w)
                     /\ before'[w] = before[w]
    BY <1>3, <1>5, <2>1 DEF Finished
  <2>3. W \subseteq Tries(u)
    BY <2>2 DEF Tries, Unlocks, Guesses
  <2>4. ASSUME NEW x \in Tries(u), x \notin W PROVE FALSE
    <3>1. x # g /\ g \in before[x] /\ x \in load.work
      BY <1>1, <1>3, <1>4, <2>1, <2>4 DEF Tries, Unlocks, Logins
    <3>2. QED
      BY <2>1, <3>1 DEF CallsInv, CallsInOrder, HasEnded, Ended, Called
  <2>5. W = Tries(u)
    BY <2>3, <2>4
  <2>6. InOrder(W)
    BY <1>3, <2>2 DEF InOrder
  <2>7. OnlyMisses(u)
    BY <2>2, <2>5, <2>6 DEF OnlyMisses
  <2>8. W = Missed(u)
    BY <2>2, <2>5 DEF Missed, Tries, Unlocks, Guesses, Called
  <2>9. MissesCount(u)
    BY <1>2, <2>1, <2>7 DEF MissesInv
  <2>10. QED
    BY <2>1, <2>8, <2>9 DEF MissesCount
<1>7. CASE ~LookUp(g)
  <2>1. held'[g] = held[g] /\ pc[g] \in {"reset", "issue", "done"}
    BY <1>7, LoginsGoOn DEF Logins
  <2>2. g \in load.work /\ before'[g] = before[g]
    BY <1>1, <1>2, <2>1 DEF Goes, Called
  <2>3. \A w \in W : w \in before[g] /\ HasEnded(w)
    BY <1>3, <2>2 DEF CallsInv, CallsInOrder
  <2>4. \A w \in W : w \in Guesses(u) /\ pc[w] = "wrong" /\ before'[w] = before[w]
    BY <1>5, <2>3
  <2>5. InOrder(W)
    BY <1>3, <2>4 DEF InOrder
  <2>6. \A x \in Unlocks(u) \ (W \cup {g}) : Called(x) => g \in before[x]
    BY <1>3, <1>4
  <2>7. Streak(W, g, u)
    BY <2>3, <2>4, <2>5, <2>6 DEF Streak
  <2>8. QED
    BY <1>2, <2>1, <2>7 DEF InTime
<1>8. QED
  BY <1>6, <1>7

(* At the start nobody has come, and counts are the first ones. *)
LEMMA LockoutStart == BackOfficeInit => LockoutInv
<1> SUFFICES ASSUME BackOfficeInit PROVE LockoutInv
  OBVIOUS
<1>1. /\ load \in Loads /\ MaxFailedLoginAttempts \in Nat \ {0}
      /\ \A q \in load.work : pc[q] = "new" /\ held[q] = Nothing
  BY UserAssumption DEF BackOfficeInit, CallsInit
<1>2. ASSUME NEW u \in Clients PROVE FirstAttempts(u) \in Nat
  BY <1>1, UserAssumption DEF FirstAttempts
<1>3. ASSUME NEW u \in Clients, users[u] # NoUser
      PROVE  /\ users[u].attempts = FirstAttempts(u)
             /\ users[u].locked => FirstAttempts(u) = MaxFailedLoginAttempts
             /\ ~users[u].locked => FirstAttempts(u) < MaxFailedLoginAttempts
  <2>1. /\ FirstRow[u] # NoUser /\ FirstRow[u] \in UserRow
        /\ users[u] = [FirstRow[u] EXCEPT !.attempts = FirstAttempts(u)]
    BY <1>3, UserAssumption DEF BackOfficeInit
  <2>2. users[u].attempts = FirstAttempts(u) /\ users[u].locked = FirstRow[u].locked
    BY <2>1 DEF UserRow
  <2>3. load.attempts \in Nat /\ load.attempts < MaxFailedLoginAttempts
    BY <1>1, UserAssumption
  <2>4. QED
    BY <2>1, <2>2, <2>3 DEF FirstAttempts
<1>4. ASSUME NEW u \in Clients
      PROVE  Guesses(u) = {} /\ Missed(u) = {} /\ Tries(u) = {} /\ \A q \in Logins : held[q].id # u
  BY <1>1, UserAssumption DEF Guesses, Missed, Tries, Unlocks, Logins, Jobs, Called
<1>5. Cardinality({}) = 0
  BY FS_EmptySet
<1>6. GuessesInv
  <2>1. \A u \in Clients : Counted(u) = FirstAttempts(u)
    BY <1>2, <1>4, <1>5 DEF Counted
  <2>2. ASSUME NEW u \in Clients, users[u] # NoUser PROVE Explains(Counted(u), users[u])
    BY <1>1, <1>2, <1>3, <2>1, <2>2 DEF Explains
  <2>3. QED
    BY <1>4, <2>2 DEF GuessesInv
<1>7. MissesInv
  BY <1>1, <1>2, <1>3, <1>4, <1>5 DEF MissesInv, MissesCount, GetByID
<1>8. InTime
  BY <1>4 DEF InTime
<1>9. QED
  BY <1>6, <1>7, <1>8 DEF LockoutInv

(* Wrong passwords, one after the other and as many as the limit, lock a   *)
(* user out, and only that many do; for any limit and any other requests.  *)
THEOREM LockoutHolds == BackOfficeSpec => []Lockout
<1>1. CallsInv /\ CustomersInv /\ LockoutInv /\ [BackOfficeNext]_backOfficeVars => LockoutInv'
  <2>1. ASSUME UNCHANGED backOfficeVars, LockoutInv PROVE LockoutInv'
    <3>1. UNCHANGED <<load, pc, held, before, errors, users>>
      BY <2>1 DEF backOfficeVars, callVars, tables
    <3>2. /\ Logins' = Logins /\ Calm' = Calm
          /\ \A u : /\ Guesses(u)' = Guesses(u) /\ Unlocks(u)' = Unlocks(u) /\ Tries(u)' = Tries(u)
                    /\ FirstAttempts(u)' = FirstAttempts(u) /\ Missed(u)' = Missed(u)
      BY <3>1 DEF Logins, Calm, Guesses, Unlocks, Tries, FirstAttempts, Missed, Jobs, Called
    <3>3. GuessesInv'
      BY <2>1, <3>1, <3>2 DEF LockoutInv, GuessesInv, Counted, Explains
    <3>4. MissesInv'
      BY <2>1, <3>1, <3>2 DEF LockoutInv, MissesInv, MissesCount, OnlyMisses, InOrder, GetByID
    <3>5. InTime'
      BY <2>1, <3>1, <3>2 DEF LockoutInv, InTime, Streak, InOrder, Called
    <3>6. QED
      BY <3>3, <3>4, <3>5 DEF LockoutInv
  <2>2. QED
    BY <2>1, GuessesInvStep, MissesStep, InTimeStep DEF CustomersInv, LockoutInv
<1>2. CallsInv /\ LockoutInv => Lockout
  <2> SUFFICES ASSUME CallsInv, LockoutInv, NEW u \in Clients
               PROVE  /\ \A g \in Jobs({"login"}) : Calm /\ pc[g] = "done" /\ held[g].id = u =>
                           \A W \in SUBSET {w \in Guesses(u) \cap before[g] : pc[w] = "wrong"} :
                             InOrder(W) /\ (\A x \in Unlocks(u) \ (W \cup {g}) : Called(x) => g \in before[x])
                               => FirstAttempts(u) + Cardinality(W) < MaxFailedLoginAttempts
                      /\ users[u] # NoUser /\ users[u].locked =>
                           FirstAttempts(u) + Cardinality(Guesses(u)) >= MaxFailedLoginAttempts
    BY DEF Lockout
  <2>1. ASSUME NEW g \in Logins, Calm, pc[g] = "done", held[g].id = u,
               NEW W \in SUBSET {w \in Guesses(u) \cap before[g] : pc[w] = "wrong"}, InOrder(W),
               \A x \in Unlocks(u) \ (W \cup {g}) : Called(x) => g \in before[x]
        PROVE  FirstAttempts(u) + Cardinality(W) < MaxFailedLoginAttempts
    <3>1. W \in SUBSET load.work
      BY DEF Guesses, Jobs
    <3>2. Streak(W, g, u)
      BY <2>1 DEF Streak
    <3>3. QED
      BY <2>1, <3>1, <3>2 DEF LockoutInv, InTime
  <2>2. ASSUME users[u] # NoUser, users[u].locked
        PROVE  FirstAttempts(u) + Cardinality(Guesses(u)) >= MaxFailedLoginAttempts
    <3>1. MaxFailedLoginAttempts <= Counted(u)
      BY <2>2 DEF LockoutInv, GuessesInv, Explains
    <3>2. IsFiniteSet(load.work) /\ Guesses(u) \subseteq load.work /\ load \in Loads
      BY CallAssumption DEF CallsInv, CallTypes, Guesses, Jobs
    <3>3. Cardinality(Guesses(u)) \in Nat /\ FirstAttempts(u) \in Nat /\ MaxFailedLoginAttempts \in Nat
      BY <3>2, FS_Subset, FS_CardinalityType, UserAssumption DEF FirstAttempts
    <3>4. QED
      BY <3>1, <3>3 DEF Counted
  <2>3. QED
    BY <2>1, <2>2 DEF Logins
<1>3. QED
  BY <1>1, <1>2, LockoutStart, CallsAreInOrder, CustomersAreCorrect, PTL DEF BackOfficeSpec
=============================================================================
