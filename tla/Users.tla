------------------------------- MODULE Users -------------------------------
(***************************************************************************)
(* The users table and the requests that only touch it: registration,      *)
(* profiles, e-mails, passwords, unlocking and the administrator's         *)
(* deletion.  A password hash stands for the password it was made of.      *)
(***************************************************************************)
EXTENDS Calls

CONSTANTS
  Clients,                \* users there are or can be
  FirstRow,               \* FirstRow[u]: the row of user u at the start, or NoUser
  Emails, Passwords,
  MaxFailedLoginAttempts

VARIABLE users  \* users[u]: the row of user u, or NoUser

UserRow == [email : Emails, hash : Passwords, attempts : 0..MaxFailedLoginAttempts,
            locked : BOOLEAN, deleted : BOOLEAN]
NoUser == [email |-> "none"]

Who(r) == JobOf[r].user

(* Requests that insert a user: each a new one. *)
Registering == {r \in Requests : Op(r) \in {"register", "create customer"}}

ASSUME UserAssumption ==
  /\ FirstRow \in [Clients -> UserRow \cup {NoUser}]
  /\ Nothing.id \notin Clients
  /\ MaxFailedLoginAttempts \in Nat \ {0}
  /\ \A l \in Loads : l.attempts \in 0..(MaxFailedLoginAttempts - 1)
  /\ \A r \in Requests : /\ Who(r) \in Clients /\ JobOf[r].email \in Emails
                          /\ {JobOf[r].password, JobOf[r].old} \subseteq Passwords
  /\ \A r \in Registering : /\ FirstRow[Who(r)] = NoUser
                             /\ \A q \in Registering \ {r} : Who(q) # Who(r)

(* What user u's count of wrong passwords starts from. *)
FirstAttempts(u) ==
  IF FirstRow[u] = NoUser THEN 0
  ELSE IF FirstRow[u].locked THEN MaxFailedLoginAttempts ELSE load.attempts

NewUser(email, password) ==
  [email |-> email, hash |-> password, attempts |-> 0, locked |-> FALSE, deleted |-> FALSE]

-----------------------------------------------------------------------------
(* Rows and queries.  Queries do not see rows that are deleted. *)

IsLocked(row) == row.locked

(* Mutant: one guess more than the limit. *)
IncrementFailedAttemptsLate(row) ==
  IF row.attempts >= MaxFailedLoginAttempts
    THEN [row EXCEPT !.locked = TRUE] ELSE [row EXCEPT !.attempts = @ + 1]

IncrementFailedAttempts(row) ==
  [row EXCEPT !.attempts = @ + 1, !.locked = @ \/ row.attempts + 1 >= MaxFailedLoginAttempts]

ResetFailedAttempts(row) == [row EXCEPT !.attempts = 0]

GetByID(u) == users[u] # NoUser /\ ~users[u].deleted

GetByEmail(email) == {u \in Clients : GetByID(u) /\ users[u].email = email}

GetByEmailExcluding(email, u) == GetByEmail(email) \ {u}

(* The unique index on e-mails holds the deleted rows too. *)
EmailTaken(email, u) == \E v \in Clients \ {u} : users[v] # NoUser /\ users[v].email = email

-----------------------------------------------------------------------------
(* Statements.  An update of a row that is deleted finds no row. *)

InsertUser(u, row) == users' = [users EXCEPT ![u] = row]

Update(u, row) == users' = [users EXCEPT ![u] = IF GetByID(u) THEN row ELSE @]

(* Mutant: every column of the copy is saved. *)
UpdateFailedLoginAttemptsWhole(u, copy) == Update(u, copy)

(* Both columns are written from the copy: a copy that is not locked unlocks. *)
UpdateFailedLoginAttempts(u, copy) ==
  Update(u, [users[u] EXCEPT !.attempts = copy.attempts, !.locked = copy.locked])

ResetFailedLoginAttempts(u) == Update(u, [users[u] EXCEPT !.attempts = 0, !.locked = FALSE])

UpdatePasswordHash(u, password) == Update(u, [users[u] EXCEPT !.hash = password])

UpdateEmail(u, email) == Update(u, [users[u] EXCEPT !.email = email])

DeleteUserRow(u) == Update(u, [users[u] EXCEPT !.deleted = TRUE])

-----------------------------------------------------------------------------
(* Requests about the user their job names, once the session is checked. *)

(* Answered by the state of the users table alone. *)
GetCustomerProfile(r) ==
  /\ Runs(r, {"profile", "profile of"}, "start")
  /\ Goto(r, IF GetByID(Who(r)) THEN "done" ELSE "refused")
  /\ UNCHANGED users

Find(r, op, next) ==
  /\ Runs(r, {op}, "start")
  /\ Goto(r, IF GetByID(Who(r)) THEN next ELSE "refused")
  /\ UNCHANGED users

(* The outcome of an update that reports how many rows it found. *)
FoundOr(r, otherwise) == Goto(r, IF GetByID(Who(r)) THEN "done" ELSE otherwise)

UnlockUser(r) ==
  \/ Find(r, "unlock", "unlock")
  \/ Runs(r, {"unlock"}, "unlock") /\ ResetFailedLoginAttempts(Who(r)) /\ Goto(r, "done")

DeleteUser(r) ==
  \/ Find(r, "delete user", "delete user")
  \/ Runs(r, {"delete user"}, "delete user") /\ DeleteUserRow(Who(r)) /\ FoundOr(r, "failed")

-----------------------------------------------------------------------------
(* Registration, by the user or by an administrator. *)

CheckEmail(r) ==
  /\ \/ Arrives(r, {"register"}) /\ UNCHANGED errors
     \/ Runs(r, {"create customer"}, "start")
  /\ Goto(r, IF GetByEmail(JobOf[r].email) = {} THEN "insert user" ELSE "refused")
  /\ UNCHANGED users

(* An e-mail some row has got since, or a deleted row still has, is an error. *)
InsertNewUser(r) ==
  /\ Runs(r, {"register", "create customer"}, "insert user")
  /\ IF EmailTaken(JobOf[r].email, Who(r))
       THEN Goto(r, "failed") /\ UNCHANGED users
       ELSE /\ InsertUser(Who(r), NewUser(JobOf[r].email, JobOf[r].password))
            /\ Goto(r, IF Op(r) = "register" THEN "checking" ELSE "done")

CreateCustomer(r) == Op(r) = "create customer" /\ (CheckEmail(r) \/ InsertNewUser(r))

-----------------------------------------------------------------------------
(* E-mails. *)

CheckNewEmail(r) ==
  /\ Runs(r, {"change email"}, "start")
  /\ Goto(r, IF GetByEmailExcluding(JobOf[r].email, Who(r)) = {} THEN "find" ELSE "refused")
  /\ UNCHANGED users

FindForEmail(r) ==
  /\ Runs(r, {"change email"}, "find")
  /\ Goto(r, IF GetByID(Who(r)) THEN "write email" ELSE "refused")
  /\ UNCHANGED users

WriteEmail(r) ==
  /\ Runs(r, {"change email"}, "write email")
  /\ IF GetByID(Who(r)) /\ EmailTaken(JobOf[r].email, Who(r))
       THEN Goto(r, "refused") /\ UNCHANGED users
       ELSE UpdateEmail(Who(r), JobOf[r].email) /\ FoundOr(r, "refused")

UpdateCustomerEmail(r) == CheckNewEmail(r) \/ FindForEmail(r) \/ WriteEmail(r)

-----------------------------------------------------------------------------
(* Passwords.  The policy refuses before anything is read. *)

ComparePassword(password, hash) == password = hash

FindForPassword(r) ==
  /\ Runs(r, {"change password"}, "start")
  /\ Goto(r, CASE ~GetByID(Who(r)) -> "refused"
               [] GetByID(Who(r)) /\ ComparePassword(JobOf[r].old, users[Who(r)].hash) ->
                    "write password"
               [] OTHER -> "wrong")
  /\ UNCHANGED users

WritePassword(r, op) ==
  /\ Runs(r, {op}, "write password")
  /\ UpdatePasswordHash(Who(r), JobOf[r].password) /\ FoundOr(r, "failed")

CustomerUpdatePassword(r) == FindForPassword(r) \/ WritePassword(r, "change password")

AdminResetPassword(r) ==
  Find(r, "reset password", "write password") \/ WritePassword(r, "reset password")
=============================================================================
