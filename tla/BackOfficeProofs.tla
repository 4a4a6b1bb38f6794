--------------------------- MODULE BackOfficeProofs ---------------------------
(***************************************************************************)
(* Theorems about BackOffice for every pool of requests, every load and    *)
(* every value of its other constants.  First what one statement does to   *)
(* the requests, whatever it is; then one invariant for each property.     *)
(***************************************************************************)
EXTENDS BackOffice, TLAPS

-----------------------------------------------------------------------------
(* Requests. *)

(* Request r goes on to some statement, or ends. *)
Moves(r) == \E s : s # "new" /\ (Goto(r, s) \/ \E copy : Read(r, s, copy))

(* What a statement of r does to everything of the frame but pc and held. *)
Ticks(r) ==
  /\ UNCHANGED load /\ ~HasEnded(r)
  /\ IF Called(r) THEN UNCHANGED before ELSE before' = [before EXCEPT ![r] = Finished]
  /\ errors' = errors \/ Error
  /\ ~Called(r) => Op(r) # "verify"

LEMMA UsersMove ==
  ASSUME NEW r, OnUsers(r)
  PROVE  Moves(r) /\ Ticks(r)
<1> USE DEF Ticks, Moves, HasEnded, Ended, Called, Runs, At, Arrives
<1>1. CheckEmail(r) \/ InsertNewUser(r) => Moves(r) /\ Ticks(r)
  BY DEF CheckEmail, InsertNewUser
<1>2. GetCustomerProfile(r) \/ UpdateCustomerEmail(r) => Moves(r) /\ Ticks(r)
  BY DEF GetCustomerProfile, UpdateCustomerEmail, CheckNewEmail, FindForEmail, WriteEmail, FoundOr
<1>3. CustomerUpdatePassword(r) \/ AdminResetPassword(r) => Moves(r) /\ Ticks(r)
  BY DEF CustomerUpdatePassword, AdminResetPassword, FindForPassword, WritePassword, Find, FoundOr
<1>4. DeleteOwner(r) \/ UnlockUser(r) \/ DeleteUser(r) => Moves(r) /\ Ticks(r)
  BY DEF DeleteOwner, UnlockUser, DeleteUser, Find, FoundOr
<1>5. QED
  BY <1>1, <1>2, <1>3, <1>4
     DEF OnUsers, Register, AddCustomer, CreateCustomer, GetMyProfile, GetProfileOf,
         UpdateMyEmail, UpdateMyPassword, ResetCustomerPassword

LEMMA SessionsMove ==
  ASSUME NEW r, OnSessions(r)
  PROVE  Moves(r) /\ Ticks(r)
<1> USE DEF Ticks, HasEnded, Ended, Called, Runs, At, Arrives
<1>1. RequireAuth(r) => Moves(r) /\ Ticks(r)
  BY DEF RequireAuth, Admission, Moves, Guarded, Public
<1>2. LookUp(r) => Moves(r) /\ Ticks(r)
  <2> SUFFICES ASSUME LookUp(r) PROVE Moves(r) /\ Ticks(r)
    OBVIOUS
  <2>1. ASSUME NEW u, Guess(r, u) PROVE Moves(r)
    BY <2>1, Zenon DEF Guess, Moves
  <2>2. QED
    BY <2>1 DEF LookUp, Moves
<1>3. CountGuess(r) \/ ForgetGuesses(r) => Moves(r) /\ Ticks(r)
  BY DEF CountGuess, ForgetGuesses, Logged, Moves
<1>4. Op(r) \in {"login", "refresh"} /\ GenerateTokens(r) => Moves(r) /\ Ticks(r)
  BY DEF GenerateTokens, Moves
<1>5. RefreshTokens(r) => Moves(r) /\ Ticks(r)
  BY DEF RefreshTokens, GetByTokenHash, FindOwner, RevokeOld, Logged, Moves
<1>6. Logout(r) => Moves(r) /\ Ticks(r)
  BY DEF Logout, BlacklistToken, RevokeAll, Logged, Moves
<1>7. QED
  BY <1>1, <1>2, <1>3, <1>4, <1>5, <1>6 DEF OnSessions, SessionStep, Login, RefreshToken

LEMMA AccountsMove ==
  ASSUME NEW r, OnAccounts(r)
  PROVE  Moves(r) /\ Ticks(r)
<1> USE DEF Ticks, Moves, HasEnded, Ended, Called, Runs, At, Decide
<1>1. CreateAccountsForNewUser(r) => Moves(r) /\ Ticks(r)
  BY DEF CreateAccountsForNewUser
<1>2. CreateAccount(r) \/ CreateAccountForCustomer(r) => Moves(r) /\ Ticks(r)
  BY DEF CreateAccount, CreateAccountForCustomer
<1>3. ASSUME NEW op, GetCustomerAccounts(r, op) PROVE Moves(r) /\ Ticks(r)
  BY <1>3 DEF GetCustomerAccounts
<1>4. Deposit(r) \/ SetStatus(r) => Moves(r) /\ Ticks(r)
  BY DEF Deposit, SetStatus
<1>5. TransferAccountOwnership(r) => Moves(r) /\ Ticks(r)
  BY DEF TransferAccountOwnership
<1>6. DeleteCustomer(r) => Moves(r) /\ Ticks(r)
  BY DEF DeleteCustomer, FindCustomer, CheckBalance, SweepAccounts, MarkSwept, Logged
<1>7. QED
  BY <1>1, <1>2, <1>3, <1>4, <1>5, <1>6
     DEF OnAccounts, OpenMyAccount, OpenForCustomer, GetMyAccounts, GetAccountsOf,
         PerformTransaction, UpdateAccountStatus, CloseAccount, MoveAccount

(* The last statement of a registration starts another request. *)
Registers(r) ==
  /\ pc[r] = "insert" /\ Op(r) = "register external" /\ UNCHANGED <<load, errors>>
  /\ StartVerifier(r, JobOf[r].verifier)
  /\ before' = [before EXCEPT ![JobOf[r].verifier] = Finished]

LEMMA ExternalsMove ==
  ASSUME NEW r \in DOMAIN pc, r \in Requests, OnExternals(r)
  PROVE  (Moves(r) /\ Ticks(r)) \/ Registers(r)
<1> USE DEF Ticks, Moves, HasEnded, Ended, Called, Runs, At
<1>1. RegisterExternalAccount(r) => (Moves(r) /\ Ticks(r)) \/ Registers(r)
  <2> SUFFICES ASSUME RegisterExternalAccount(r), pc[r] = "insert", Op(r) = "register external",
                      UNCHANGED <<load, errors>>
               PROVE  (Moves(r) /\ Ticks(r)) \/ Registers(r)
    BY DEF RegisterExternalAccount, DecideExternal
  <2> DEFINE v == JobOf[r].verifier
  <2>1. v # r
    BY ExternalAssumption DEF JobOf
  <2>2. before' = IF pc'[r] = "done" THEN [before EXCEPT ![v] = Finished] ELSE before
    BY DEF RegisterExternalAccount, DecideExternal
  <2>3. CASE StartVerifier(r, v)
    BY <2>1, <2>2, <2>3 DEF StartVerifier, Registers
  <2>4. CASE Goto(r, "failed")
    BY <2>2, <2>4 DEF Goto
  <2>5. QED
    BY <2>3, <2>4 DEF RegisterExternalAccount, DecideExternal, PutExternal
<1>2. GetExternalAccount(r) \/ DeleteExternalAccount(r) => Moves(r) /\ Ticks(r)
  BY DEF GetExternalAccount, DeleteExternalAccount, DecideExternal
<1>3. VerifyAccountWithNorthWind(r) => Moves(r) /\ Ticks(r)
  BY DEF VerifyAccountWithNorthWind, VerifyFind, VerifyAsk, VerifySave, PutExternal
<1>4. QED
  BY <1>1, <1>2, <1>3 DEF OnExternals, AddExternal, ShowExternal, RemoveExternal

(* Every step is one of these. *)
LEMMA StepCases ==
  ASSUME BackOfficeNext, DOMAIN pc = load.work, load.work \subseteq Requests
  PROVE  \/ \E r \in load.work : (Moves(r) /\ Ticks(r)) \/ Registers(r)
         \/ Killed
<1>1. ASSUME NEW r, Breaks(r, LoggedSteps) PROVE Moves(r) /\ Ticks(r)
  BY <1>1 DEF Breaks, Moves, Ticks, Called, HasEnded
<1>2. QED
  BY <1>1, UsersMove, SessionsMove, AccountsMove, ExternalsMove DEF BackOfficeNext

CallTypes ==
  /\ load \in Loads
  /\ pc = [q \in load.work |-> pc[q]]
  /\ held = [q \in load.work |-> held[q]]
  /\ before \in [load.work -> SUBSET load.work]
  /\ errors \in Nat /\ errors <= load.errors

(* Who has not been called has read nothing and comes after nobody; a      *)
(* registration's verifier is not called before the registration ends.     *)
CallsInOrder ==
  /\ \A q \in load.work : ~Called(q) => before[q] = {} /\ held[q] = Nothing
  /\ \A q \in load.work : \A p \in before[q] : HasEnded(p)
  /\ \A r \in Jobs({"register external"}) :
       ~HasEnded(r) /\ JobOf[r].verifier \in load.work => ~Called(JobOf[r].verifier)

CallsInv == CallTypes /\ CallsInOrder

(* What any step may do to request q. *)
Goes(q) ==
  /\ HasEnded(q) => pc'[q] = pc[q] /\ held'[q] = held[q]
  /\ Called(q) => Called(q)' /\ before'[q] = before[q]
  /\ ~Called(q) /\ Called(q)' =>
       /\ before'[q] = Finished
       /\ Op(q) = "verify" => \E r \in load.work : Registers(r) /\ JobOf[r].verifier = q

LEMMA OneMoves ==
  ASSUME CallTypes, NEW r \in load.work, Moves(r), Ticks(r)
  PROVE  /\ UNCHANGED load
         /\ pc' = [pc EXCEPT ![r] = pc'[r]] /\ pc'[r] # "new"
         /\ held' = [held EXCEPT ![r] = held'[r]]
         /\ \A q \in load.work \ {r} : pc'[q] = pc[q] /\ held'[q] = held[q]
         /\ ~HasEnded(r)
         /\ before' = IF Called(r) THEN before ELSE [before EXCEPT ![r] = Finished]
         /\ ~Called(r) => Op(r) # "verify"
  BY DEF CallTypes, Moves, Goto, Read, Ticks

(* Each step of the process keeps the requests in order: what has ended    *)
(* stays as it is, what has been called stays called.                      *)
LEMMA CallsStep ==
  ASSUME CallsInv, BackOfficeNext
  PROVE  /\ CallsInv' /\ UNCHANGED load
         /\ \A q \in load.work : Goes(q)
         /\ Calm' => Calm /\ UNCHANGED errors
<1> USE DEF CallTypes
<1>1. load.work \subseteq Requests /\ load.errors \in Nat
  BY CallAssumption DEF CallsInv
<1>2. ASSUME NEW r \in load.work, Moves(r), Ticks(r)
      PROVE  /\ UNCHANGED load
             /\ pc' = [pc EXCEPT ![r] = pc'[r]] /\ pc'[r] # "new"
             /\ held' = [held EXCEPT ![r] = held'[r]]
             /\ ~HasEnded(r)
             /\ before' = IF Called(r) THEN before ELSE [before EXCEPT ![r] = Finished]
             /\ ~Called(r) => Op(r) # "verify"
  BY <1>2, OneMoves DEF CallsInv
<1>3. ASSUME NEW r \in load.work, Moves(r), Ticks(r) PROVE CallsInv' /\ \A q \in load.work : Goes(q)
  <2> USE <1>2, <1>3 DEF CallsInv
  <2>1. (errors \in Nat /\ errors <= load.errors)'
    BY <1>1 DEF Ticks, Error
  <2>2. CallTypes'
    BY <2>1 DEF Finished
  <2>3. \A q \in load.work : Goes(q)
    BY DEF Goes, Called
  <2>4. \A q \in load.work : (~Called(q) => before[q] = {} /\ held[q] = Nothing)'
    BY DEF CallsInOrder, Called
  <2>5. ASSUME NEW q \in load.work, NEW p \in before'[q] PROVE HasEnded(p)'
    <3>1. p \in before[q] \/ p \in Finished
      BY <2>5
    <3>2. HasEnded(p) /\ p \in load.work
      BY <3>1 DEF CallsInOrder, Finished
    <3>3. QED
      BY <2>3, <3>2 DEF Goes, HasEnded
  <2>6. ASSUME NEW q \in Jobs({"register external"})', ~HasEnded(q)',
               JobOf[q].verifier \in load.work
        PROVE  ~Called(JobOf[q].verifier)'
    <3>1. Op(JobOf[q].verifier) = "verify" /\ q \in load.work
      BY <1>1, ExternalAssumption DEF Jobs, Op, JobOf
    <3>2. ~HasEnded(q)
      BY <2>3, <2>6, <3>1 DEF Goes, HasEnded
    <3>3. ~Called(JobOf[q].verifier)
      BY <2>6, <3>2 DEF CallsInOrder, Jobs, Op
    <3>4. QED
      BY <2>6, <3>1, <3>3 DEF Called
  <2>7. CallsInOrder'
    BY <2>4, <2>5, <2>6 DEF CallsInOrder
  <2>8. QED
    BY <2>2, <2>3, <2>7
<1>4. ASSUME NEW r \in load.work, Registers(r) PROVE CallsInv' /\ \A q \in load.work : Goes(q)
  <2> DEFINE v == JobOf[r].verifier
  <2> USE <1>4 DEF CallsInv
  <2>1. /\ r \in Jobs({"register external"}) /\ ~HasEnded(r) /\ v # r /\ Op(v) = "verify"
        /\ \A q \in Jobs({"register external"}) \ {r} : JobOf[q].verifier # v
    <3>1. r \in Requests /\ pc[r] = "insert" /\ Op(r) = "register external"
      BY <1>1 DEF Registers
    <3>2. Op(v) = "verify" /\ JobOf[v].external = JobOf[r].external
      BY <3>1, ExternalAssumption DEF JobOf
    <3>3. ASSUME NEW q \in Jobs({"register external"}) \ {r} PROVE JobOf[q].verifier # v
      <4>1. q \in Requests /\ Op(q) = "register external"
        BY <1>1 DEF Jobs
      <4>2. JobOf[JobOf[q].verifier].external = JobOf[q].external
        BY <4>1, ExternalAssumption DEF JobOf
      <4>3. JobOf[q].external # JobOf[r].external
        BY <3>1, <4>1, ExternalAssumption DEF JobOf
      <4>4. QED
        BY <3>2, <4>2, <4>3
    <3>4. QED
      BY <3>1, <3>2, <3>3 DEF Jobs, HasEnded, Ended
  <2>2. /\ pc' = [pc EXCEPT ![r] = "done", ![v] = "find"]
        /\ before' = [before EXCEPT ![v] = Finished]
        /\ UNCHANGED <<load, held, errors>>
    BY DEF Registers, StartVerifier
  <2>3. v \in load.work => ~Called(v) /\ ~HasEnded(v)
    BY <2>1 DEF CallsInOrder, Called, HasEnded, Ended
  <2>4. CallTypes'
    BY <2>1, <2>2 DEF Finished
  <2>5. \A q \in load.work : pc'[q] = IF q = v THEN "find" ELSE IF q = r THEN "done" ELSE pc[q]
    BY <2>1, <2>2
  <2>6. \A q \in load.work : Goes(q)
    <3>1. \A q \in load.work : before'[q] = IF q = v THEN Finished ELSE before[q]
      BY <2>2
    <3>2. ASSUME NEW q \in load.work PROVE Goes(q)
      <4>1. CASE q = v
        BY <2>2, <2>3, <2>5, <3>1, <4>1 DEF Goes, Called
      <4>2. CASE q # v
        <5>1. (pc'[q] = "done" \/ pc'[q] = pc[q]) /\ (HasEnded(q) => pc'[q] = pc[q])
          BY <2>1, <2>5, <4>2
        <5>2. before'[q] = before[q] /\ held'[q] = held[q] /\ (q = r => Called(q))
          BY <2>2, <3>1, <4>2 DEF Registers, Called
        <5>3. Called(q) <=> Called(q)'
          BY <2>5, <4>2, <5>2 DEF Called
        <5>4. QED
          BY <5>1, <5>2, <5>3 DEF Goes
      <4>3. QED
        BY <4>1, <4>2
    <3>3. QED
      BY <3>2
  <2>7. \A q \in load.work : (~Called(q) => before[q] = {} /\ held[q] = Nothing)'
    BY <2>2, <2>5 DEF CallsInOrder, Called
  <2>8. ASSUME NEW q \in load.work, NEW p \in before'[q] PROVE HasEnded(p)'
    <3>1. HasEnded(p) /\ p \in load.work
      BY <2>2, <2>8 DEF CallsInOrder, Finished
    <3>2. QED
      BY <2>6, <3>1 DEF Goes, HasEnded
  <2>9. ASSUME NEW q \in Jobs({"register external"})', ~HasEnded(q)',
               JobOf[q].verifier \in load.work
        PROVE  ~Called(JobOf[q].verifier)'
    <3>1. Op(JobOf[q].verifier) = "verify" /\ q \in Jobs({"register external"})
      BY <1>1, <2>2, ExternalAssumption DEF Jobs, Op, JobOf
    <3>2. q # r
      BY <2>2, <2>5, <2>9, <2>1 DEF HasEnded, Ended, Jobs
    <3>3. ~HasEnded(q)
      BY <2>6, <2>9, <3>1 DEF Goes, HasEnded, Jobs
    <3>4. ~Called(JobOf[q].verifier) /\ JobOf[q].verifier \notin {v, r}
      BY <2>1, <2>2, <2>9, <3>1, <3>2, <3>3 DEF CallsInOrder, Jobs
    <3>5. QED
      BY <2>2, <2>5, <2>9, <3>4 DEF Called
  <2>10. CallsInOrder'
    BY <2>2, <2>7, <2>8, <2>9 DEF CallsInOrder
  <2>11. QED
    BY <2>4, <2>6, <2>10
<1>5. ASSUME Killed PROVE CallsInv' /\ \A q \in load.work : Goes(q)
  <2> USE <1>5 DEF CallsInv
  <2>1. CallTypes'
    BY <1>1 DEF Killed, Error
  <2>2. /\ \A q \in load.work : pc'[q] = IF Called(q) /\ ~HasEnded(q) THEN "failed" ELSE pc[q]
        /\ UNCHANGED <<load, held, before>>
    BY DEF Killed
  <2>3. \A q \in load.work : (Called(q)' <=> Called(q)) /\ (HasEnded(q) => pc'[q] = pc[q])
    BY <2>2 DEF Called
  <2>4. \A q \in load.work : Goes(q)
    BY <2>2, <2>3 DEF Goes
  <2>5. \A q \in load.work : HasEnded(q) => HasEnded(q)'
    BY <2>3 DEF HasEnded
  <2>6. \A q \in load.work : (~Called(q) => before[q] = {} /\ held[q] = Nothing)'
    BY <2>2, <2>3 DEF CallsInOrder
  <2>7. \A q \in load.work : \A p \in before'[q] : HasEnded(p)'
    BY <2>2, <2>5 DEF CallsInOrder
  <2>8. ASSUME NEW r \in Jobs({"register external"})', ~HasEnded(r)',
               JobOf[r].verifier \in load.work
        PROVE  ~Called(JobOf[r].verifier)'
    <3>1. r \in Jobs({"register external"}) /\ r \in load.work
      BY <2>2, <2>8 DEF Jobs
    <3>2. ~HasEnded(r)
      BY <2>5, <2>8, <3>1
    <3>3. QED
      BY <2>3, <2>8, <3>1, <3>2 DEF CallsInOrder
  <2>9. CallsInOrder'
    BY <2>2, <2>6, <2>7, <2>8 DEF CallsInOrder
  <2>10. QED
    BY <2>1, <2>4, <2>9
<1>6. Calm' => Calm /\ UNCHANGED errors
  <2>1. UNCHANGED load /\ (UNCHANGED errors \/ Error)
    BY <1>1, <1>2, StepCases DEF CallsInv, Ticks, Registers, Killed
  <2>2. QED
    BY <1>1, <2>1 DEF Calm, Error, CallsInv
<1>7. DOMAIN pc = load.work
  BY DEF CallsInv
<1>8. UNCHANGED load
  BY <1>1, <1>2, <1>7, StepCases DEF Registers, Killed
<1>9. CallsInv' /\ \A q \in load.work : Goes(q)
  BY <1>1, <1>3, <1>4, <1>5, <1>7, StepCases
<1>10. QED
  BY <1>6, <1>8, <1>9, Zenon

(* Every request is where the chain of its operation has got to, and `before' is what
   had ended when it was called: a call that ended before another began stays so. *)
THEOREM CallsAreInOrder == BackOfficeSpec => []CallsInv
<1>1. BackOfficeInit => CallsInv
  BY CallAssumption DEF BackOfficeInit, CallsInit, CallsInv, CallTypes, CallsInOrder, Called, Jobs
<1>2. CallsInv /\ UNCHANGED backOfficeVars => CallsInv'
  BY DEF CallsInv, CallTypes, CallsInOrder, Called, HasEnded, Jobs, backOfficeVars, callVars
<1>3. QED
  BY <1>1, <1>2, CallsStep, PTL DEF BackOfficeSpec

-----------------------------------------------------------------------------
(* Which requests take part in what. *)

UserOps == {"register", "create customer", "profile", "profile of", "change email",
            "change password", "reset password", "unlock", "delete user", "delete customer"}
AccountOps == {"register", "open", "open for", "accounts", "accounts of", "deposit",
               "set status", "close", "move", "delete customer"}
ExternalOps == {"register external", "external", "delete external", "verify"}

LEMMA Families ==
  ASSUME NEW r
  PROVE  /\ OnUsers(r) => Op(r) \in UserOps /\ UNCHANGED <<tokens, blacklist, accounts, externals>>
         /\ OnAccounts(r) => Op(r) \in AccountOps /\ UNCHANGED <<users, tokens, blacklist, externals>>
         /\ OnExternals(r) => Op(r) \in ExternalOps /\ UNCHANGED <<users, tokens, blacklist, accounts>>
         /\ OnSessions(r) => /\ RequireAuth(r) \/ Op(r) \in {"login", "refresh", "logout"}
                             /\ UNCHANGED <<accounts, externals>>
<1> USE DEF Runs, At, Arrives
<1>1. OnUsers(r) => Op(r) \in UserOps
  BY DEF OnUsers, Register, AddCustomer, CreateCustomer, GetMyProfile, GetProfileOf,
         UpdateMyEmail, UpdateMyPassword, ResetCustomerPassword, DeleteOwner, UnlockUser, DeleteUser,
         UpdateCustomerEmail, CheckNewEmail, FindForEmail, WriteEmail, CustomerUpdatePassword,
         AdminResetPassword, FindForPassword, WritePassword, Find, UserOps
<1>2. OnAccounts(r) => Op(r) \in AccountOps
  BY DEF OnAccounts, OpenMyAccount, OpenForCustomer, GetMyAccounts, GetAccountsOf, PerformTransaction,
         UpdateAccountStatus, CloseAccount, MoveAccount, CreateAccountsForNewUser, CreateAccount,
         CreateAccountForCustomer, GetCustomerAccounts, Deposit, TransferAccountOwnership,
         DeleteCustomer, FindCustomer, CheckBalance, SweepAccounts, MarkSwept, Decide, AccountOps
<1>3. OnExternals(r) => Op(r) \in ExternalOps
  BY DEF OnExternals, AddExternal, ShowExternal, RemoveExternal, RegisterExternalAccount, DecideExternal,
         GetExternalAccount, DeleteExternalAccount, VerifyAccountWithNorthWind, VerifyFind, VerifyAsk,
         VerifySave, ExternalOps
<1>4. OnSessions(r) => RequireAuth(r) \/ Op(r) \in {"login", "refresh", "logout"}
  BY DEF OnSessions, SessionStep, Login, LookUp, CountGuess, ForgetGuesses, RefreshToken, RefreshTokens,
         GetByTokenHash, FindOwner, RevokeOld, Logout, BlacklistToken, RevokeAll
<1>5. QED
  BY <1>1, <1>2, <1>3, <1>4 DEF OnUsers, OnSessions, OnAccounts, OnExternals

(* What a step does to a request that does not run a statement of its own. *)
Waits(q) ==
  /\ held'[q] = held[q] /\ (pc'[q] = pc[q] \/ pc'[q] \in {"start", "refused", "failed"})
  /\ pc'[q] = "start" => pc[q] \in {"new", "start"}

(* Request r runs a statement of its own, after the middleware's. *)
Acts(r) == OnUsers(r) \/ OnAccounts(r) \/ OnExternals(r) \/ (OnSessions(r) /\ ~RequireAuth(r))

LEMMA ActsMove ==
  ASSUME CallsInv, NEW r \in load.work, Acts(r), Op(r) # "register external"
  PROVE  Moves(r) /\ Ticks(r)
<1>1. r \in DOMAIN pc /\ r \in Requests
  BY CallAssumption DEF CallsInv, CallTypes
<1>2. QED
  BY <1>1, UsersMove, SessionsMove, AccountsMove, ExternalsMove DEF Acts, Registers

(* In a step some request of the given ones acts, or all of them wait. *)
LEMMA Bystanders ==
  ASSUME CallsInv, BackOfficeNext, NEW ops, "verify" \in ops => "register external" \in ops
  PROVE  \/ \E r \in Jobs(ops) : Acts(r)
         \/ /\ \A q \in Jobs(ops) : Waits(q)
            /\ UNCHANGED tables \/ \E r \in load.work \ Jobs(ops) : Acts(r)
<1>1. load.work \subseteq Requests /\ DOMAIN pc = load.work
  BY CallAssumption DEF CallsInv, CallTypes
<1>2. ASSUME NEW r \in load.work, RequireAuth(r), OnSessions(r)
      PROVE  UNCHANGED tables /\ \A q \in load.work : Waits(q)
  <2>1. /\ Goto(r, "start") \/ Goto(r, "refused")
        /\ ~Called(r) /\ UNCHANGED sessionTables
    BY <1>2 DEF RequireAuth, Arrives, Admission, Called
  <2>2. \A q \in load.work : Waits(q)
    BY <1>1, <2>1 DEF Goto, Waits, Called
  <2>3. QED
    BY <1>2, <2>1, <2>2 DEF OnSessions, sessionTables, tables
<1>3. ASSUME NEW r \in load.work, Breaks(r, LoggedSteps) PROVE \A q \in load.work : Waits(q)
  BY <1>1, <1>3 DEF Breaks, Goto, Waits
<1>4. ASSUME Killed PROVE \A q \in load.work : Waits(q)
  BY <1>1, <1>4 DEF Killed, Waits
<1>5. ASSUME NEW r \in load.work, Acts(r), r \notin Jobs(ops)
      PROVE  \A q \in Jobs(ops) : Waits(q)
  <2>1. CASE Moves(r) /\ Ticks(r)
    BY <1>5, <2>1, OneMoves DEF CallsInv, Jobs, Waits
  <2>2. CASE Registers(r)
    <3>1. /\ "verify" \notin ops /\ Op(JobOf[r].verifier) = "verify"
          /\ \A q \in load.work \ {r, JobOf[r].verifier} : pc'[q] = pc[q] /\ held'[q] = held[q]
      BY <1>1, <1>5, <2>2, ExternalAssumption DEF Registers, StartVerifier, Jobs, JobOf, Op, CallsInv, CallTypes
    <3>2. QED
      BY <1>5, <3>1 DEF Jobs, Waits
  <2>3. QED
    BY <1>1, <1>5, <2>1, <2>2, UsersMove, SessionsMove, AccountsMove, ExternalsMove DEF Acts
<1>6. \/ \E r \in load.work : Acts(r) \/ (RequireAuth(r) /\ OnSessions(r))
      \/ UNCHANGED tables /\ (Killed \/ \E r \in load.work : Breaks(r, LoggedSteps))
  BY DEF BackOfficeNext, Acts
<1>7. Jobs(ops) \subseteq load.work
  BY DEF Jobs
<1>8. QED
  BY <1>2, <1>3, <1>4, <1>5, <1>6, <1>7

-----------------------------------------------------------------------------
(* What a request that is called runs first. *)

LEMMA FirstStatements ==
  ASSUME NEW r, Acts(r), pc[r] = "new"
  PROVE  (Op(r) = "register" /\ CheckEmail(r)) \/ LookUp(r) \/ GetByTokenHash(r)
<1> USE DEF Runs, At, Arrives
<1>1. OnUsers(r) => Op(r) = "register" /\ CheckEmail(r)
  BY DEF OnUsers, Register, AddCustomer, CreateCustomer, GetMyProfile, GetProfileOf, GetCustomerProfile,
         InsertNewUser, CheckEmail,
         UpdateMyEmail, UpdateMyPassword, ResetCustomerPassword, DeleteOwner, UnlockUser, DeleteUser,
         UpdateCustomerEmail, CheckNewEmail, FindForEmail, WriteEmail, CustomerUpdatePassword,
         AdminResetPassword, FindForPassword, WritePassword, Find
<1>2. ~OnAccounts(r)
  BY DEF OnAccounts, OpenMyAccount, OpenForCustomer, GetMyAccounts, GetAccountsOf, PerformTransaction,
         UpdateAccountStatus, CloseAccount, MoveAccount, CreateAccountsForNewUser, CreateAccount,
         CreateAccountForCustomer, GetCustomerAccounts, Deposit, SetStatus, TransferAccountOwnership,
         DeleteCustomer, FindCustomer, CheckBalance, SweepAccounts, MarkSwept, Decide
<1>3. ~OnExternals(r)
  BY DEF OnExternals, AddExternal, ShowExternal, RemoveExternal, RegisterExternalAccount, DecideExternal,
         GetExternalAccount, DeleteExternalAccount, VerifyAccountWithNorthWind, VerifyFind, VerifyAsk,
         VerifySave
<1>4. OnSessions(r) /\ ~RequireAuth(r) => LookUp(r) \/ GetByTokenHash(r)
  BY DEF OnSessions, SessionStep, Login, CountGuess, ForgetGuesses, GenerateTokens, RefreshToken,
         RefreshTokens, FindOwner, RevokeOld, Logout, BlacklistToken, RevokeAll
<1>5. QED
  BY <1>1, <1>2, <1>3, <1>4 DEF Acts

LEMMA Arrivals ==
  ASSUME CallsInv, BackOfficeNext, NEW q \in load.work, ~Called(q), Called(q)', Op(q) # "verify"
  PROVE  \/ RequireAuth(q) /\ OnSessions(q)
         \/ Acts(q) /\ Op(q) = "register" /\ CheckEmail(q)
         \/ Acts(q) /\ (LookUp(q) \/ GetByTokenHash(q))
<1>1. load.work \subseteq Requests /\ DOMAIN pc = load.work
  BY CallAssumption DEF CallsInv, CallTypes
<1>2. ASSUME NEW r \in load.work, r # q, Acts(r) \/ (RequireAuth(r) /\ OnSessions(r)) PROVE FALSE
  <2>1. (Moves(r) /\ Ticks(r)) \/ Registers(r)
    BY <1>1, <1>2, UsersMove, SessionsMove, AccountsMove, ExternalsMove DEF Acts
  <2>2. CASE Moves(r) /\ Ticks(r)
    BY <1>2, <2>2, OneMoves DEF CallsInv, Called
  <2>3. CASE Registers(r)
    <3>1. Op(JobOf[r].verifier) = "verify"
      BY <1>1, <2>3, ExternalAssumption DEF Registers, JobOf
    <3>2. pc'[q] = pc[q]
      BY <1>1, <1>2, <2>3, <3>1 DEF Registers, StartVerifier
    <3>3. QED
      BY <3>2 DEF Called
  <2>4. QED
    BY <2>1, <2>2, <2>3
<1>3. ASSUME NEW r \in load.work, Breaks(r, LoggedSteps) PROVE FALSE
  BY <1>1, <1>3 DEF Breaks, Goto, Called
<1>4. ~Killed
  BY DEF Killed, Called
<1>5. Acts(q) \/ (RequireAuth(q) /\ OnSessions(q))
  BY <1>2, <1>3, <1>4 DEF BackOfficeNext, Acts
<1>6. QED
  BY <1>5, FirstStatements DEF Called

-----------------------------------------------------------------------------
(* External accounts. *)

X(r) == JobOf[r].external

Removers == Jobs({"delete external"})
Verifiers == Jobs({"verify"})
Registrars == Jobs({"register external"})

(* Rows are inserted by registrations only, and those that are removed or  *)
(* verified are there; a verifier holds a copy of its row.                 *)
RowsAreThere ==
  /\ \A r \in Registrars : pc[r] # "done" => externals[X(r)] = NoExternal
  /\ \A d \in Removers : pc[d] \in {"remove", "done"} => externals[X(d)] # NoExternal
  /\ \A v \in Verifiers : Called(v) => externals[X(v)] # NoExternal
  /\ \A v \in Verifiers : pc[v] \in {"ask", "save external"} =>
       held[v] = [id |-> X(v), row |-> held[v].row] /\ held[v].row \in ExternalRow

(* No verification begins after its row is removed. *)
VerifiedBeforeRemoved ==
  \A d \in Removers : \A v \in Verifiers : pc[d] = "done" /\ X(v) = X(d) => d \notin before[v]

RemovedStayRemoved ==
  \A d \in Removers :
    pc[d] = "done" /\ (\A v \in Verifiers : X(v) = X(d) => ~Called(v) \/ v \in before[d])
      => externals[X(d)].deleted

ExternalsInv ==
  /\ externals \in [Externals -> ExternalRow \cup {NoExternal}]
  /\ RowsAreThere /\ VerifiedBeforeRemoved /\ RemovedStayRemoved

LEMMA NoExternalIsNoRow == NoExternal \notin ExternalRow
<1> SUFFICES ASSUME NoExternal \in ExternalRow PROVE FALSE
  OBVIOUS
<1>1. DOMAIN NoExternal = {"owner"}
  BY DEF NoExternal
<1>2. "number" \in DOMAIN NoExternal
  BY DEF ExternalRow
<1>3. QED
  BY <1>1, <1>2

(* The statements of OnExternals that write the table. *)
Inserts(r) ==
  /\ Op(r) = "register external" /\ Registers(r)
  /\ externals' = [externals EXCEPT ![X(r)] = NewExternal(Who(r), JobOf[r].number)]
Saves(r) ==
  /\ Op(r) = "verify" /\ pc[r] = "save external" /\ pc'[r] = "done" /\ UNCHANGED held
  /\ externals' = [externals EXCEPT ![held[r].id] = held[r].row]
Removes(r) ==
  /\ Op(r) = "delete external" /\ pc[r] = "remove" /\ Goto(r, "done")
  /\ DeleteExternalRow(X(r))

(* The statements that only read it. *)
Looks(r) ==
  /\ UNCHANGED externals
  /\ Op(r) = "register external" => pc'[r] # "done"
  /\ Op(r) = "delete external" =>
       pc'[r] # "done" /\ (pc'[r] = "remove" => externals[X(r)] # NoExternal)
  /\ Op(r) = "verify" =>
       /\ Called(r)
       /\ pc'[r] \in {"ask", "save external"} =>
            \/ FindByID(X(r)) /\ held'[r] = [id |-> X(r), row |-> externals[X(r)]]
            \/ /\ pc[r] = "ask"
               /\ \E answer : held'[r] = [held[r] EXCEPT !.row = Verdict(@, answer)]

LEMMA ExternalSteps ==
  ASSUME CallsInv, NEW r \in load.work, OnExternals(r)
  PROVE  Inserts(r) \/ Saves(r) \/ Removes(r) \/ Looks(r)
<1> r \in Requests /\ pc = [q \in load.work |-> pc[q]] /\ held = [q \in load.work |-> held[q]]
  BY CallAssumption DEF CallsInv, CallTypes
<1> USE DEF Runs, At
<1>1. CASE RegisterExternalAccount(r)
  <2> DEFINE v == JobOf[r].verifier
  <2>1. Op(r) = "register external"
    BY <1>1 DEF RegisterExternalAccount, DecideExternal
  <2>2. CASE pc[r] = "insert"
    <3>1. v # r
      BY <2>1, ExternalAssumption DEF JobOf
    <3>2. PutExternal(r, X(r), NewExternal(Who(r), JobOf[r].number), StartVerifier(r, v))
      BY <1>1, <2>2 DEF RegisterExternalAccount, DecideExternal, X
    <3>3. CASE Goto(r, "failed") /\ UNCHANGED externals
      BY <2>1, <3>3 DEF Goto, Looks
    <3>4. CASE StartVerifier(r, v)
      <4>1. pc'[r] = "done"
        BY <3>1, <3>4 DEF StartVerifier
      <4>2. Registers(r)
        BY <1>1, <2>1, <2>2, <3>4, <4>1 DEF RegisterExternalAccount, DecideExternal, Registers
      <4>3. externals' = [externals EXCEPT ![X(r)] = NewExternal(Who(r), JobOf[r].number)]
        BY <3>2, <4>1 DEF PutExternal, Goto
      <4>4. QED
        BY <2>1, <4>2, <4>3 DEF Inserts
    <3>5. QED
      BY <3>2, <3>3, <3>4 DEF PutExternal
  <2>3. CASE pc[r] # "insert"
    BY <1>1, <2>1, <2>3 DEF RegisterExternalAccount, DecideExternal, Goto, Looks
  <2>4. QED
    BY <2>2, <2>3
<1>2. CASE GetExternalAccount(r)
  BY <1>2 DEF GetExternalAccount, DecideExternal, Goto, Looks
<1>3. CASE DeleteExternalAccount(r)
  BY <1>3 DEF DeleteExternalAccount, DecideExternal, Goto, Looks, Removes, MayUse, FindByID, X
<1>4. CASE VerifyFind(r)
  BY <1>4 DEF VerifyFind, Goto, Read, Looks, X, Called
<1>5. CASE VerifyAsk(r)
  BY <1>5 DEF VerifyAsk, Read, Looks, Called
<1>6. CASE VerifySave(r)
  BY <1>6 DEF VerifySave, PutExternal, Goto, Looks, Saves, Called
<1>7. QED
  BY <1>1, <1>2, <1>3, <1>4, <1>5, <1>6
     DEF OnExternals, AddExternal, ShowExternal, RemoveExternal, VerifyAccountWithNorthWind

(* A step that does not write the table of external accounts. *)
LEMMA ExternalsKept ==
  ASSUME CallsInv, CallsInv', UNCHANGED <<load, externals>>, ExternalsInv,
         \A q \in load.work : Goes(q),
         \A q \in Jobs(ExternalOps) : Waits(q) \/ Looks(q),
         \A v \in Verifiers : Called(v)' => Called(v)
  PROVE  ExternalsInv'
<1>1. /\ Registrars' = Registrars /\ Removers' = Removers /\ Verifiers' = Verifiers
      /\ Registrars \subseteq Jobs(ExternalOps) /\ Removers \subseteq Jobs(ExternalOps)
      /\ Verifiers \subseteq Jobs(ExternalOps) /\ Jobs(ExternalOps) \subseteq load.work
  BY DEF Registrars, Removers, Verifiers, Jobs, ExternalOps
<1>2. \A q \in load.work : HasEnded(q) => pc'[q] = pc[q] /\ held'[q] = held[q]
  BY DEF Goes
<1>3. \A q \in load.work : Called(q) => before'[q] = before[q]
  BY DEF Goes
<1>4. \A d \in Removers : /\ pc'[d] = "done" => pc[d] = "done"
                          /\ pc'[d] = "remove" => pc[d] = "remove" \/ externals[X(d)] # NoExternal
  BY <1>1 DEF Waits, Looks, Removers, Jobs
<1>5. ASSUME NEW v \in Verifiers, pc'[v] \in {"ask", "save external"}
      PROVE  held'[v] = [id |-> X(v), row |-> held'[v].row] /\ held'[v].row \in ExternalRow
  <2>1. CASE Waits(v)
    BY <1>5, <2>1 DEF Waits, ExternalsInv, RowsAreThere
  <2>2. CASE Looks(v) /\ FindByID(X(v)) /\ held'[v] = [id |-> X(v), row |-> externals[X(v)]]
    <3>1. externals[X(v)] \in ExternalRow
      BY <1>1, <2>2, CallAssumption, ExternalAssumption, ZenonT(60)
         DEF ExternalsInv, FindByID, X, JobOf, Verifiers, Jobs, CallsInv, CallTypes
    <3>2. QED
      BY <2>2, <3>1
  <2>3. ASSUME Looks(v), pc[v] = "ask",
               NEW answer, held'[v] = [held[v] EXCEPT !.row = Verdict(@, answer)]
        PROVE  held'[v] = [id |-> X(v), row |-> held'[v].row] /\ held'[v].row \in ExternalRow
    <3>1. held[v] = [id |-> X(v), row |-> held[v].row] /\ held[v].row \in ExternalRow
      BY <2>3 DEF ExternalsInv, RowsAreThere
    <3> DEFINE row == held[v].row
    <3>2. Verdict(row, answer) \in ExternalRow
      BY <3>1 DEF Verdict, ExternalRow
    <3>3. held'[v] = [id |-> X(v), row |-> Verdict(row, answer)]
      BY <2>3, <3>1
    <3>4. QED
      BY <3>2, <3>3
  <2>4. QED
    BY <1>1, <1>5, <2>1, <2>2, <2>3 DEF Looks, Verifiers, Jobs
<1>6. RowsAreThere'
  BY <1>1, <1>2, <1>4, <1>5 DEF ExternalsInv, RowsAreThere, HasEnded, Ended, X
<1>7. VerifiedBeforeRemoved'
  BY <1>1, <1>3, <1>4, ZenonT(60) DEF ExternalsInv, VerifiedBeforeRemoved, X, Called, CallsInv, CallsInOrder
<1>8. RemovedStayRemoved'
  BY <1>1, <1>3, <1>4 DEF ExternalsInv, RemovedStayRemoved, X, Called, Goes
<1>9. QED
  BY <1>6, <1>7, <1>8 DEF ExternalsInv

LEMMA ExternalsStep ==
  ASSUME CallsInv, BackOfficeNext, ExternalsInv
  PROVE  ExternalsInv'
<1>1. CallsInv' /\ UNCHANGED load /\ \A q \in load.work : Goes(q)
  BY CallsStep
<1>2. /\ Registrars' = Registrars /\ Removers' = Removers /\ Verifiers' = Verifiers
      /\ Registrars \subseteq Jobs(ExternalOps) /\ Removers \subseteq Jobs(ExternalOps)
      /\ Verifiers \subseteq Jobs(ExternalOps) /\ Jobs(ExternalOps) \subseteq load.work
      /\ load.work \subseteq Requests
  BY <1>1, CallAssumption DEF Registrars, Removers, Verifiers, Jobs, ExternalOps, CallsInv, CallTypes
<1>3. \A q \in load.work : X(q) \in Externals /\ Who(q) \in Clients
  BY <1>2, ExternalAssumption, UserAssumption DEF X, JobOf
<1> HIDE DEF CallsInv
<1>4. CASE /\ UNCHANGED externals /\ \A q \in Jobs(ExternalOps) : Waits(q)
           /\ ~\E r \in load.work : Registers(r)
  <2>1. \A v \in Verifiers : Called(v)' => Called(v)
    BY <1>1, <1>2, <1>4 DEF Goes, Verifiers, Jobs
  <2>2. QED
    BY <1>1, <1>4, <2>1, ExternalsKept
<1>5. ASSUME NEW r \in Jobs(ExternalOps), Looks(r) \/ Saves(r) \/ Removes(r),
             \A q \in load.work \ {r} : pc'[q] = pc[q] /\ held'[q] = held[q]
      PROVE  ExternalsInv'
  <2>1. CASE Looks(r)
    <3>1. \A q \in Jobs(ExternalOps) : Waits(q) \/ Looks(q)
      BY <1>2, <1>5, <2>1 DEF Waits
    <3>2. \A v \in Verifiers : Called(v)' => Called(v)
      BY <1>2, <1>5, <2>1 DEF Looks, Called, Verifiers, Jobs
    <3>3. QED
      BY <1>1, <2>1, <3>1, <3>2, ExternalsKept DEF Looks
  <2>2. CASE Saves(r)
    <3>1. r \in Verifiers /\ ~HasEnded(r) /\ Called(r) /\ Called(r)'
      BY <1>2, <1>5, <2>2 DEF Saves, Verifiers, Jobs, HasEnded, Ended, Called
    <3>2. /\ externals' = [externals EXCEPT ![X(r)] = held[r].row] /\ held[r].row \in ExternalRow
          /\ externals[X(r)] # NoExternal
      <4>1. pc[r] = "save external" /\ externals' = [externals EXCEPT ![held[r].id] = held[r].row]
        BY <2>2 DEF Saves
      <4>2. held[r] = [id |-> X(r), row |-> held[r].row] /\ held[r].row \in ExternalRow
        BY <3>1, <4>1 DEF ExternalsInv, RowsAreThere
      <4>3. held[r].id = X(r)
        BY <4>2
      <4>4. externals[X(r)] # NoExternal
        BY <3>1 DEF ExternalsInv, RowsAreThere
      <4>5. QED
        BY <4>1, <4>2, <4>3, <4>4
    <3>3. externals' \in [Externals -> ExternalRow \cup {NoExternal}]
      BY <1>3, <3>2, <1>2, <3>1 DEF ExternalsInv
    <3>4. \A q \in load.work : externals[X(q)] # NoExternal <=> externals'[X(q)] # NoExternal
      BY <1>3, <3>2, NoExternalIsNoRow DEF ExternalsInv
    <3>5. /\ \A q \in load.work \ {r} : pc'[q] = pc[q] /\ held'[q] = held[q]
          /\ pc'[r] = "done" /\ pc[r] = "save external"
      BY <1>5, <2>2 DEF Saves
    <3>6. RowsAreThere'
      BY <1>2, <3>1, <3>4, <3>5 DEF ExternalsInv, RowsAreThere, Called, X, Registrars, Removers, Verifiers, Jobs
    <3>7. \A q \in load.work : before'[q] = before[q]
      <4>1. \A q \in load.work : Called(q) \/ ~Called(q)'
        BY <3>1, <3>5 DEF Called
      <4>2. ASSUME NEW q \in load.work PROVE before'[q] = before[q]
        <5>1. Called(q) => before'[q] = before[q]
          BY <1>1 DEF Goes
        <5>2. ~Called(q)' /\ ~Called(q) => before'[q] = {} /\ before[q] = {}
          BY <1>1 DEF CallsInv, CallsInOrder
        <5>3. QED
          BY <4>1, <5>1, <5>2
      <4>3. QED
        BY <4>2
    <3>8. VerifiedBeforeRemoved'
      <4>1. \A d \in Removers : pc'[d] = pc[d]
        BY <1>2, <3>1, <3>5 DEF Removers, Verifiers, Jobs
      <4>2. QED
        BY <1>2, <3>7, <4>1 DEF ExternalsInv, VerifiedBeforeRemoved, X
    <3>9. ASSUME NEW d \in Removers, pc'[d] = "done",
                 \A v \in Verifiers : X(v) = X(d) => ~Called(v)' \/ v \in before'[d]
          PROVE  externals'[X(d)].deleted
      <4>1. X(d) # X(r)
        BY <1>2, <3>1, <3>7, <3>9 DEF CallsInv, CallsInOrder
      <4>2. d # r
        BY <3>1 DEF Removers, Verifiers, Jobs
      <4>3. \A v \in Verifiers : X(v) = X(d) => ~Called(v) \/ v \in before[d]
        BY <1>2, <3>5, <3>7, <3>9 DEF Called
      <4>4. externals[X(d)].deleted
        BY <1>2, <3>5, <3>9, <4>2, <4>3 DEF ExternalsInv, RemovedStayRemoved
      <4>5. QED
        BY <1>2, <1>3, <3>2, <4>1, <4>4 DEF ExternalsInv
    <3>10. QED
      BY <1>2, <3>3, <3>6, <3>8, <3>9 DEF ExternalsInv, RemovedStayRemoved, X
  <2>3. CASE Removes(r)
    <3>1. r \in Removers /\ ~HasEnded(r) /\ Called(r) /\ pc[r] = "remove"
      BY <1>2, <1>5, <2>3 DEF Removes, Removers, Jobs, HasEnded, Ended, Called
    <3>2. externals[X(r)] \in ExternalRow
      BY <1>2, <1>3, <3>1 DEF ExternalsInv, RowsAreThere
    <3>3. /\ externals' = [externals EXCEPT ![X(r)] = externals'[X(r)]]
          /\ externals'[X(r)] \in ExternalRow /\ externals'[X(r)].deleted
      <4> DEFINE row == IF FindByID(X(r)) THEN [externals[X(r)] EXCEPT !.deleted = TRUE]
                                          ELSE externals[X(r)]
      <4>1. X(r) \in Externals /\ externals = [x \in Externals |-> externals[x]]
        BY <1>2, <1>3, <3>1 DEF ExternalsInv
      <4>2. externals' = [externals EXCEPT ![X(r)] = row]
        BY <2>3 DEF Removes, DeleteExternalRow
      <4>3. row \in ExternalRow
        BY <3>2 DEF ExternalRow
      <4>4. row.deleted
        BY <3>2, NoExternalIsNoRow DEF FindByID, ExternalRow
      <4>5. externals'[X(r)] = row
        BY <4>1, <4>2
      <4> HIDE DEF row
      <4>6. QED
        BY <4>2, <4>3, <4>4, <4>5
    <3>4. externals' \in [Externals -> ExternalRow \cup {NoExternal}]
      BY <1>2, <1>3, <3>1, <3>3 DEF ExternalsInv
    <3>5. \A q \in load.work : externals[X(q)] # NoExternal <=> externals'[X(q)] # NoExternal
      BY <1>3, <3>2, <3>3, NoExternalIsNoRow DEF ExternalsInv
    <3>6. /\ \A q \in load.work \ {r} : pc'[q] = pc[q] /\ held'[q] = held[q]
          /\ pc'[r] = "done"
      BY <1>2, <1>5, <2>3 DEF Removes, Goto, CallsInv, CallTypes
    <3>7. RowsAreThere'
      BY <1>2, <3>1, <3>3, <3>5, <3>6, NoExternalIsNoRow, ZenonT(60)
         DEF ExternalsInv, RowsAreThere, Called, X, Registrars, Removers, Verifiers, Jobs
    <3>8. \A q \in load.work : before'[q] = before[q]
      <4>1. \A q \in load.work : Called(q) \/ ~Called(q)'
        BY <3>1, <3>6 DEF Called
      <4>2. ASSUME NEW q \in load.work PROVE before'[q] = before[q]
        <5>1. Called(q) => before'[q] = before[q]
          BY <1>1 DEF Goes
        <5>2. ~Called(q)' /\ ~Called(q) => before'[q] = {} /\ before[q] = {}
          BY <1>1 DEF CallsInv, CallsInOrder
        <5>3. QED
          BY <4>1, <5>1, <5>2
      <4>3. QED
        BY <4>2
    <3>9. \A v \in Verifiers : r \notin before[v]
      BY <1>2, <3>1 DEF CallsInv, CallsInOrder
    <3>10. VerifiedBeforeRemoved'
      BY <1>2, <3>1, <3>6, <3>8, <3>9 DEF ExternalsInv, VerifiedBeforeRemoved, X, Removers, Verifiers, Jobs
    <3>11. ASSUME NEW d \in Removers, pc'[d] = "done",
                 \A v \in Verifiers : X(v) = X(d) => ~Called(v)' \/ v \in before'[d]
          PROVE  externals'[X(d)].deleted
      <4>1. CASE X(d) = X(r)
        BY <3>3, <4>1
      <4>2. CASE X(d) # X(r)
        <5>1. \A v \in Verifiers : X(v) = X(d) => ~Called(v) \/ v \in before[d]
          BY <1>2, <3>1, <3>6, <3>8, <3>11 DEF Called, Removers, Verifiers, Jobs
        <5>2. externals[X(d)].deleted
          BY <1>2, <3>6, <3>11, <4>2, <5>1 DEF ExternalsInv, RemovedStayRemoved
        <5>3. QED
          BY <1>2, <1>3, <3>3, <4>2, <5>2 DEF ExternalsInv
      <4>3. QED
        BY <4>1, <4>2
    <3>12. QED
      BY <1>2, <3>4, <3>7, <3>10, <3>11 DEF ExternalsInv, RemovedStayRemoved, X
  <2>4. QED
    BY <1>5, <2>1, <2>2, <2>3
<1>6. ASSUME NEW r \in load.work, Inserts(r) PROVE ExternalsInv'
  <2> DEFINE v == JobOf[r].verifier
  <2> HIDE DEF v
  <2>1. /\ r \in Registrars /\ pc[r] = "insert" /\ v # r /\ Op(v) = "verify" /\ X(v) = X(r)
        /\ \A q \in Registrars \ {r} : X(q) # X(r)
    BY <1>2, <1>6, ExternalAssumption DEF Inserts, Registers, Registrars, Jobs, JobOf, X, v
  <2>2. /\ pc' = [pc EXCEPT ![r] = "done", ![v] = "find"]
        /\ before' = [before EXCEPT ![v] = Finished]
        /\ UNCHANGED <<load, held, errors>>
    BY <1>6 DEF Inserts, Registers, StartVerifier, v
  <2>3. externals[X(r)] = NoExternal
    BY <2>1 DEF ExternalsInv, RowsAreThere
  <2>4. NewExternal(Who(r), JobOf[r].number) \in ExternalRow
    BY <1>2, <1>6, UserAssumption, ExternalAssumption DEF NewExternal, ExternalRow, JobOf
  <2>5. externals'[X(r)] \in ExternalRow /\ \A x \in Externals \ {X(r)} : externals'[x] = externals[x]
    BY <1>3, <1>6, <2>4 DEF Inserts, ExternalsInv
  <2>6. externals' \in [Externals -> ExternalRow \cup {NoExternal}]
    BY <1>3, <1>6, <2>4 DEF Inserts, ExternalsInv
  <2>7. /\ \A q \in load.work : pc'[q] = IF q = v THEN "find" ELSE IF q = r THEN "done" ELSE pc[q]
        /\ \A q \in load.work : before'[q] = IF q = v THEN Finished ELSE before[q]
    BY <2>1, <2>2 DEF CallsInv, CallTypes
  <2>8. \A q \in Registrars : pc'[q] # "done" => externals'[X(q)] = NoExternal
    BY <1>2, <1>3, <2>1, <2>5, <2>7 DEF ExternalsInv, RowsAreThere, Registrars, Jobs
  <2>9. \A d \in Removers : /\ d \notin {r, v} /\ pc'[d] = pc[d]
                            /\ pc[d] = "done" => X(d) # X(r)
    BY <1>2, <2>1, <2>3, <2>7 DEF ExternalsInv, RowsAreThere, Removers, Registrars, Jobs
  <2>10. \A d \in Removers : pc'[d] \in {"remove", "done"} => externals'[X(d)] # NoExternal
    BY <1>2, <1>3, <2>3, <2>5, <2>9, NoExternalIsNoRow DEF ExternalsInv, RowsAreThere
  <2>11. \A w \in Verifiers : w # v => pc'[w] = pc[w] /\ before'[w] = before[w]
    BY <1>2, <2>1, <2>7 DEF Verifiers, Registrars, Jobs
  <2>12. \A w \in Verifiers : Called(w)' => externals'[X(w)] # NoExternal
    BY <1>2, <1>3, <2>1, <2>3, <2>5, <2>11, NoExternalIsNoRow, ZenonT(60)
       DEF ExternalsInv, RowsAreThere, Called
  <2>13. \A w \in Verifiers : pc'[w] \in {"ask", "save external"} =>
           held'[w] = [id |-> X(w), row |-> held'[w].row] /\ held'[w].row \in ExternalRow
    <3>1. ASSUME NEW w \in Verifiers, pc'[w] \in {"ask", "save external"}
          PROVE  pc[w] = pc'[w] /\ held'[w] = held[w]
      <4>1. w \in load.work
        BY <1>2
      <4>2. w # v
        BY <2>7, <3>1, <4>1
      <4>3. QED
        BY <2>2, <2>11, <4>2
    <3>2. QED
      BY <3>1 DEF ExternalsInv, RowsAreThere
  <2>14. RowsAreThere'
    BY <1>2, <2>8, <2>10, <2>12, <2>13 DEF RowsAreThere, X
  <2>15. VerifiedBeforeRemoved'
    BY <1>2, <2>1, <2>9, <2>11 DEF ExternalsInv, VerifiedBeforeRemoved, X
  <2>16. ASSUME NEW d \in Removers, pc'[d] = "done",
                \A w \in Verifiers : X(w) = X(d) => ~Called(w)' \/ w \in before'[d]
         PROVE  externals'[X(d)].deleted
    <3>1. before'[d] = before[d] /\ X(d) # X(r) /\ pc[d] = "done"
      BY <1>2, <2>7, <2>9, <2>16
    <3>2. \A w \in Verifiers : X(w) = X(d) => ~Called(w) \/ w \in before[d]
      BY <2>1, <2>11, <2>16, <3>1 DEF Called
    <3>3. externals[X(d)].deleted
      BY <3>1, <3>2 DEF ExternalsInv, RemovedStayRemoved
    <3>4. QED
      BY <1>2, <1>3, <2>5, <3>1, <3>3
  <2>17. QED
    BY <1>2, <2>6, <2>14, <2>15, <2>16 DEF ExternalsInv, RemovedStayRemoved, X
<1>7. ASSUME NEW r \in Jobs(ExternalOps), OnExternals(r) PROVE ExternalsInv'
  <2>1. r \in load.work /\ r \in Requests /\ r \in DOMAIN pc
    BY <1>2 DEF CallsInv, CallTypes
  <2>2. CASE Inserts(r)
    BY <1>6, <2>1, <2>2
  <2>3. CASE ~Inserts(r)
    <3>1. Looks(r) \/ Saves(r) \/ Removes(r)
      BY <1>7, <2>1, <2>3, ExternalSteps
    <3>2. ~Registers(r)
      BY <2>1, <3>1, ExternalAssumption
         DEF Looks, Saves, Removes, Registers, StartVerifier, CallsInv, CallTypes, JobOf
    <3>3. \A q \in load.work \ {r} : pc'[q] = pc[q] /\ held'[q] = held[q]
      BY <1>7, <2>1, <3>2, ExternalsMove, OneMoves DEF CallsInv
    <3>4. QED
      BY <1>5, <1>7, <3>1, <3>3
  <2>4. QED
    BY <2>2, <2>3
<1>8. QED
  <2>1. "register external" \in ExternalOps /\ "verify" \in ExternalOps
    BY DEF ExternalOps
  <2>2. \A r \in Jobs(ExternalOps) : Acts(r) => OnExternals(r)
    BY Families DEF Acts, Jobs, UserOps, AccountOps, ExternalOps
  <2>3. CASE \E r \in Jobs(ExternalOps) : Acts(r)
    BY <1>7, <2>2, <2>3
  <2>4. CASE /\ \A q \in Jobs(ExternalOps) : Waits(q)
             /\ UNCHANGED tables \/ \E r \in load.work \ Jobs(ExternalOps) : Acts(r)
    <3>1. UNCHANGED externals
      BY <2>4, Families DEF tables, Acts, Jobs
    <3>2. \A r \in load.work : ~Registers(r)
      BY <1>2, <2>4, ExternalAssumption
         DEF Registers, StartVerifier, Waits, CallsInv, CallTypes, JobOf, Jobs, ExternalOps
    <3>3. QED
      BY <1>4, <2>4, <3>1, <3>2
  <2>5. QED
    BY <2>1, <2>3, <2>4, Bystanders

(* A removed external account stays removed, for every pool and load. *)
THEOREM RemovedExternalsStayRemoved == BackOfficeSpec => []ExternalStaysDeleted
<1>1. BackOfficeInit => ExternalsInv
  <2> SUFFICES ASSUME BackOfficeInit PROVE ExternalsInv
    OBVIOUS
  <2>1. /\ load.work \subseteq Requests /\ externals = FirstExternal
        /\ \A q \in load.work : pc[q] = "new"
    BY CallAssumption DEF BackOfficeInit, CallsInit
  <2>2. \A r \in Registrars : FirstExternal[X(r)] = NoExternal
    BY <2>1, ExternalAssumption DEF Registrars, Jobs, X, JobOf
  <2>3. QED
    BY <2>1, <2>2, ExternalAssumption
       DEF ExternalsInv, RowsAreThere, VerifiedBeforeRemoved, RemovedStayRemoved,
           Registrars, Removers, Verifiers, Jobs, Called
<1>2. CallsInv /\ ExternalsInv /\ UNCHANGED backOfficeVars => ExternalsInv'
  BY DEF ExternalsInv, RowsAreThere, VerifiedBeforeRemoved, RemovedStayRemoved,
         Registrars, Removers, Verifiers, Jobs, Called, X, backOfficeVars, callVars, tables
<1>3. CallsInv /\ ExternalsInv => ExternalStaysDeleted
  BY DEF CallsInv, CallsInOrder, ExternalsInv, VerifiedBeforeRemoved, RemovedStayRemoved, ExternalStaysDeleted,
         Overlap, Called, Removers, Verifiers, X
<1>4. QED
  BY <1>1, <1>2, <1>3, CallsAreInOrder, ExternalsStep, PTL DEF BackOfficeSpec

-----------------------------------------------------------------------------
(* Ended sessions. *)

SessionOps == {"login", "refresh", "logout"}

Refreshes == Jobs({"refresh"})
Logouts == Jobs({"logout"})
Token(r) == JobOf[r].token

(* Exchanged tokens were answered to someone. *)
TokensAreHeld ==
  /\ tokens = [t \in Tokens |-> tokens[t]]
  /\ \A r \in Refreshes : Called(r) => Holds(Token(r))

(* An exchanged token is revoked, and who asks afterwards is refused. *)
ExchangedOnce ==
  /\ \A r \in Refreshes : pc[r] \in {"issue", "done"} => tokens[Token(r)] = "revoked"
  /\ \A r, q \in Refreshes :
       Token(r) = Token(q) /\ pc[r] = "done" /\ r \in before[q] => pc[q] = "refused"

(* Sessions the user of o had when o began. *)
EndedBy(o) == {t \in OldSessions \cup before[o] : t \in Tokens /\ Owner(t) = Who(o)}

LoggedOut ==
  /\ \A o \in Logouts : pc[o] \in {"revoke all", "done"} => Token(o) \in blacklist
  /\ \A o \in Logouts : pc[o] = "done" => \A t \in EndedBy(o) : tokens[t] # "live"
  /\ \A o \in Logouts : \A q \in Jobs(Guarded) :
       pc[o] = "done" /\ o \in before[q] /\ Token(q) = Token(o) => pc[q] = "refused"
  /\ \A o \in Logouts : \A q \in Refreshes :
       /\ pc[o] = "done" /\ o \in before[q]
       /\ held[q].id = Who(o) /\ Token(q) \in OldSessions \cup before[o]
       => pc[q] = "refused"

SessionsInv == TokensAreHeld /\ (Calm => ExchangedOnce /\ LoggedOut)

(* What one step does to tokens. *)
TokenStep ==
  /\ tokens' = [t \in Tokens |-> tokens'[t]]
  /\ \A t \in Tokens :
       tokens'[t] \in {tokens[t], "revoked"} \/ (t \in load.work /\ pc[t] = "issue")
  /\ blacklist \subseteq blacklist'
  /\ \A r \in Refreshes :
       pc'[r] \in {"issue", "done"} /\ pc[r] \notin {"issue", "done"} /\ UNCHANGED errors
         => tokens'[Token(r)] = "revoked"
  /\ \A o \in Logouts : UNCHANGED errors =>
       /\ pc'[o] \in {"revoke all", "done"} /\ pc[o] \notin {"revoke all", "done"} =>
            Token(o) \in blacklist'
       /\ pc'[o] = "done" /\ pc[o] # "done" =>
            \A t \in Tokens : Owner(t) = Who(o) => tokens'[t] # "live"

LEMMA TokensStep ==
  ASSUME CallsInv, BackOfficeNext, TokensAreHeld
  PROVE  TokenStep
<1>1. load.work \subseteq Requests /\ pc = [q \in load.work |-> pc[q]]
  BY CallAssumption DEF CallsInv, CallTypes
<1>2. \A r \in Refreshes : Called(r) => Token(r) \in Tokens
  BY DEF TokensAreHeld, Holds, Jobs, Tokens
<1>3. CASE UNCHANGED <<tokens, blacklist>> /\ \A q \in Jobs(SessionOps) : Waits(q)
  BY <1>3 DEF TokensAreHeld, TokenStep, Waits, SessionOps, Refreshes, Logouts, Jobs
<1>4. ASSUME NEW r \in Jobs(SessionOps), Acts(r) PROVE TokenStep
  <2>1. /\ r \in load.work /\ Op(r) \in SessionOps /\ OnSessions(r) /\ ~RequireAuth(r)
        /\ \A q \in load.work \ {r} : pc'[q] = pc[q]
    BY <1>4, Families, ActsMove, OneMoves
       DEF Acts, Jobs, SessionOps, UserOps, AccountOps, ExternalOps, CallsInv
  <2>2. CASE /\ UNCHANGED <<tokens, blacklist>>
             /\ Op(r) \in {"refresh", "logout"} => pc'[r] \notin {"issue", "revoke all", "done"}
    BY <2>1, <2>2 DEF TokensAreHeld, TokenStep, Refreshes, Logouts, Jobs
  <2>3. CASE LookUp(r) \/ CountGuess(r) \/ ForgetGuesses(r)
    BY <2>1, <2>3 DEF LookUp, CountGuess, ForgetGuesses, Arrives, At, sessionTables,
                      TokensAreHeld, TokenStep, Refreshes, Logouts, Jobs
  <2>4. CASE GenerateTokens(r)
    <3>1. /\ pc[r] = "issue" /\ Op(r) \in {"login", "refresh"} /\ pc'[r] = "done"
          /\ tokens' = [tokens EXCEPT ![r] = "live"] /\ UNCHANGED blacklist
      BY <1>1, <2>1, <2>4 DEF GenerateTokens, Runs, At, Goto, InsertToken
    <3>2. QED
      BY <2>1, <3>1 DEF TokensAreHeld, TokenStep, Refreshes, Logouts, Jobs
  <2>5. CASE GetByTokenHash(r) \/ FindOwner(r)
    <3>1. UNCHANGED <<tokens, blacklist>> /\ Op(r) = "refresh"
      BY <2>5 DEF GetByTokenHash, FindOwner, Runs, At, Arrives, sessionTables
    <3>2. pc'[r] \in {"owner", "revoke", "refused", "failed"}
      BY <1>1, <2>1, <2>5 DEF GetByTokenHash, FindOwner, Goto, Read
    <3>3. QED
      BY <2>1, <3>1, <3>2 DEF TokensAreHeld, TokenStep, Refreshes, Logouts, Jobs
  <2>6. CASE RevokeOld(r)
    <3>1. /\ Op(r) = "refresh" /\ r \in Refreshes /\ Called(r) /\ UNCHANGED blacklist
          /\ tokens' = [tokens EXCEPT ![Token(r)] = "revoked"] \/ (Error /\ UNCHANGED tokens)
      BY <2>1, <2>6 DEF RevokeOld, At, Logged, SaveToken, Refreshes, Jobs, Called, Token
    <3>2. Token(r) \in Tokens
      BY <1>2, <3>1
    <3>3. CASE tokens' = [tokens EXCEPT ![Token(r)] = "revoked"]
      BY <2>1, <3>1, <3>2, <3>3 DEF TokensAreHeld, TokenStep, Refreshes, Logouts, Jobs
    <3>4. CASE Error /\ UNCHANGED tokens
      <4>1. errors' # errors
        BY <3>4 DEF Error, CallsInv, CallTypes
      <4>2. QED
        BY <2>1, <3>1, <3>4, <4>1 DEF TokensAreHeld, TokenStep
    <3>5. QED
      BY <3>1, <3>3, <3>4
  <2>7. CASE BlacklistToken(r)
    <3>1. /\ Op(r) = "logout" /\ pc'[r] = "revoke all" /\ UNCHANGED tokens
          /\ (blacklist' = blacklist \cup {Token(r)}) \/ (Error /\ UNCHANGED blacklist)
      BY <1>1, <2>1, <2>7 DEF BlacklistToken, At, Goto, Logged, Blacklist, Token
    <3>2. Error => errors' # errors
      BY DEF Error, CallsInv, CallTypes
    <3>3. \A q \in Refreshes : pc'[q] = pc[q]
      BY <2>1, <3>1 DEF Refreshes, Jobs
    <3>4. \A o \in Logouts : pc'[o] = pc[o] \/ (o = r /\ pc'[o] = "revoke all")
      BY <2>1, <3>1 DEF Logouts, Jobs
    <3>5. QED
      BY <3>1, <3>2, <3>3, <3>4 DEF TokensAreHeld, TokenStep
  <2>8. CASE RevokeAll(r)
    <3>1. /\ Op(r) = "logout" /\ pc[r] = "revoke all" /\ pc'[r] = "done" /\ UNCHANGED blacklist
          /\ RevokeAllForUser(Who(r)) \/ (Error /\ UNCHANGED tokens)
      BY <1>1, <2>1, <2>8 DEF RevokeAll, At, Goto, Logged
    <3>2. Error => errors' # errors
      BY DEF Error, CallsInv, CallTypes
    <3>3. \A q \in Refreshes : pc'[q] = pc[q]
      BY <2>1, <3>1 DEF Refreshes, Jobs
    <3>4. \A o \in Logouts : pc'[o] = pc[o] \/ (o = r /\ pc'[o] = "done" /\ pc[o] = "revoke all")
      BY <2>1, <3>1 DEF Logouts, Jobs
    <3>5. CASE RevokeAllForUser(Who(r))
      <4>1. \A t \in Tokens : tokens'[t] = IF tokens[t] = "live" /\ Owner(t) = Who(r) THEN "revoked" ELSE tokens[t]
        BY <3>5 DEF RevokeAllForUser
      <4>2. tokens' = [t \in Tokens |-> tokens'[t]]
        BY <3>5 DEF RevokeAllForUser
      <4>3. QED
        BY <3>1, <3>3, <3>4, <4>1, <4>2 DEF TokenStep
    <3>6. CASE Error /\ UNCHANGED tokens
      BY <3>1, <3>2, <3>3, <3>4, <3>6 DEF TokensAreHeld, TokenStep
    <3>7. QED
      BY <3>1, <3>5, <3>6
  <2>9. QED
    BY <2>1, <2>3, <2>4, <2>5, <2>6, <2>7, <2>8
       DEF OnSessions, SessionStep, Login, RefreshToken, RefreshTokens, Logout
<1>5. QED
  <2>1. CASE /\ \A q \in Jobs(SessionOps) : Waits(q)
             /\ UNCHANGED tables \/ \E r \in load.work \ Jobs(SessionOps) : Acts(r)
    <3>1. UNCHANGED <<tokens, blacklist>>
      BY <2>1, Families DEF tables, Acts, Jobs, SessionOps
    <3>2. QED
      BY <1>3, <2>1, <3>1
  <2>2. "verify" \notin SessionOps
    BY DEF SessionOps
  <2>3. QED
    BY <1>4, <2>1, <2>2, Bystanders

(* What a refresh has read stays what it has read. *)
LEMMA RefreshesReadOnce ==
  ASSUME CallsInv, BackOfficeNext, NEW q \in Refreshes, Called(q)
  PROVE  held'[q] = held[q]
<1>1. CASE \A r \in Jobs(SessionOps) : Waits(r)
  BY <1>1 DEF Waits, SessionOps, Refreshes, Jobs
<1>2. ASSUME NEW r \in Jobs(SessionOps), Acts(r) PROVE held'[q] = held[q]
  <2>1. /\ r \in load.work /\ Op(r) \in SessionOps /\ OnSessions(r) /\ ~RequireAuth(r)
        /\ \A p \in load.work \ {r} : held'[p] = held[p]
    BY <1>2, Families, ActsMove, OneMoves
       DEF Acts, Jobs, SessionOps, UserOps, AccountOps, ExternalOps, CallsInv
  <2>2. CASE r # q
    BY <2>1, <2>2 DEF Refreshes, Jobs
  <2>3. CASE r = q
    <3>1. GenerateTokens(q) \/ FindOwner(q) \/ RevokeOld(q)
      BY <2>1, <2>3 DEF OnSessions, SessionStep, Login, LookUp, CountGuess, ForgetGuesses, Logout,
                        BlacklistToken, RevokeAll, RefreshToken, RefreshTokens, GetByTokenHash,
                        Arrives, At, Called, Refreshes, Jobs
    <3>2. QED
      BY <3>1 DEF GenerateTokens, FindOwner, RevokeOld, Goto
  <2>4. QED
    BY <2>2, <2>3
<1>3. QED
  BY <1>1, <1>2, Bystanders DEF SessionOps

LEMMA SessionsStep ==
  ASSUME CallsInv, BackOfficeNext, SessionsInv
  PROVE  SessionsInv'
<1>1. /\ CallsInv' /\ UNCHANGED load /\ load.work \subseteq Requests
      /\ \A q \in load.work : Goes(q)
      /\ Calm' => Calm /\ UNCHANGED errors
  BY CallsStep, CallAssumption DEF CallsInv, CallTypes
<1>2. TokenStep
  BY TokensStep DEF SessionsInv
<1>3. /\ Refreshes' = Refreshes /\ Logouts' = Logouts /\ Tokens' = Tokens /\ Jobs(Guarded)' = Jobs(Guarded)
      /\ Refreshes \subseteq load.work /\ Logouts \subseteq load.work /\ Jobs(Guarded) \subseteq load.work
  BY <1>1 DEF Refreshes, Logouts, Jobs, Tokens, Guarded
<1>4. \A q \in load.work : HasEnded(q) => pc'[q] = pc[q] /\ held'[q] = held[q]
  BY <1>1 DEF Goes
<1>5. \A q \in load.work : Called(q) => before'[q] = before[q]
  BY <1>1 DEF Goes
<1>6. \A q \in load.work : \A r \in before'[q] : r \in load.work /\ HasEnded(r)
  <2>1. ASSUME NEW q \in load.work, NEW r \in before'[q] PROVE r \in load.work /\ HasEnded(r)
    <3>1. before'[q] = before[q] \/ before'[q] = Finished \/ before'[q] = {}
      BY <1>1 DEF Goes, CallsInv, CallsInOrder
    <3>2. r \in before[q] \/ r \in Finished
      BY <2>1, <3>1
    <3>3. QED
      BY <3>2 DEF CallsInv, CallTypes, CallsInOrder, Finished
  <2>2. QED
    BY <2>1
<1>7. \A q \in load.work : ~Called(q) /\ ~Called(q)' => before'[q] = {}
  BY <1>1 DEF CallsInv, CallsInOrder
<1>8. ASSUME NEW q \in Refreshes, ~Called(q), Called(q)' PROVE GetByTokenHash(q)
  BY <1>3, <1>8, Arrivals DEF RequireAuth, Arrives, Guarded, Public, LookUp, Refreshes, Jobs
<1>9. ASSUME NEW t, Holds(t) PROVE Holds(t)' /\ t \in Tokens /\ ~(t \in load.work /\ pc[t] = "issue")
  BY <1>1, <1>4, <1>9, SessionAssumption DEF Holds, Jobs, Tokens, HasEnded, Ended
<1>10. \A r \in Refreshes : Called(r)' => Holds(Token(r))
  BY <1>1, <1>3, <1>8 DEF SessionsInv, TokensAreHeld, GetByTokenHash, Token
<1>11. TokensAreHeld'
  BY <1>2, <1>3, <1>9, <1>10 DEF TokensAreHeld, TokenStep, Token
<1>12. ASSUME Calm' PROVE ExchangedOnce'
  <2>1. ExchangedOnce /\ UNCHANGED errors
    BY <1>1, <1>12 DEF SessionsInv
  <2>2. ASSUME NEW r \in Refreshes, pc'[r] \in {"issue", "done"} PROVE tokens'[Token(r)] = "revoked"
    <3>1. CASE pc[r] \in {"issue", "done"}
      <4>1. Holds(Token(r)) /\ tokens[Token(r)] = "revoked"
        BY <2>1, <3>1 DEF ExchangedOnce, SessionsInv, TokensAreHeld, Called
      <4>2. QED
        BY <1>2, <1>9, <4>1 DEF TokenStep
    <3>2. CASE pc[r] \notin {"issue", "done"}
      BY <1>2, <2>1, <2>2, <3>2 DEF TokenStep
    <3>3. QED
      BY <3>1, <3>2
  <2>3. ASSUME NEW r \in Refreshes, NEW q \in Refreshes, Token(r) = Token(q),
               pc'[r] = "done", r \in before'[q]
        PROVE  pc'[q] = "refused"
    <3>1. pc[r] = "done"
      BY <1>3, <1>4, <1>6, <2>3
    <3>2. CASE Called(q)
      BY <1>3, <1>4, <1>5, <2>1, <2>3, <3>1, <3>2 DEF ExchangedOnce, HasEnded, Ended
    <3>3. CASE ~Called(q)
      <4>1. GetByTokenHash(q)
        BY <1>3, <1>7, <1>8, <2>3, <3>3
      <4>2. tokens[Token(q)] = "revoked"
        BY <2>1, <2>3, <3>1 DEF ExchangedOnce
      <4>3. Goto(q, "refused")
        BY <4>1, <4>2 DEF GetByTokenHash, Token
      <4>4. QED
        BY <1>3, <4>3 DEF Goto, CallsInv, CallTypes
    <3>4. QED
      BY <3>2, <3>3
  <2>4. QED
    BY <1>3, <2>2, <2>3 DEF ExchangedOnce, Token
<1>13. ASSUME Calm' PROVE LoggedOut'
  <2>1. LoggedOut /\ UNCHANGED errors
    BY <1>1, <1>13 DEF SessionsInv
  <2>2. \A o \in Logouts : pc'[o] \in {"revoke all", "done"} => Token(o) \in blacklist'
    BY <1>2, <2>1 DEF LoggedOut, TokenStep
  <2>3. ASSUME NEW o \in Logouts, pc'[o] = "done", NEW t \in EndedBy(o)' PROVE tokens'[t] # "live"
    <3>1. t \in Tokens /\ Owner(t)' = Who(o) /\ t \in OldSessions \cup before'[o]
      BY <1>3, <2>3 DEF EndedBy, Who
    <3>2. t \in OldSessions \/ (t \in load.work /\ HasEnded(t))
      BY <1>3, <1>6, <3>1
    <3>3. Owner(t) = Who(o)
      BY <1>4, <3>1, <3>2 DEF Owner
    <3>4. ~(t \in load.work /\ pc[t] = "issue")
      BY <1>1, <3>2, SessionAssumption DEF HasEnded, Ended
    <3>5. CASE pc[o] = "done"
      <4>1. t \in EndedBy(o)
        BY <1>3, <1>5, <3>1, <3>3, <3>5 DEF EndedBy, Called
      <4>2. tokens[t] # "live"
        BY <2>1, <3>5, <4>1 DEF LoggedOut
      <4>3. QED
        BY <1>2, <3>1, <3>4, <4>2 DEF TokenStep
    <3>6. CASE pc[o] # "done"
      BY <1>2, <2>1, <2>3, <3>1, <3>3, <3>6 DEF TokenStep
    <3>7. QED
      BY <3>5, <3>6
  <2>4. ASSUME NEW o \in Logouts, NEW q \in load.work, pc'[o] = "done", o \in before'[q]
        PROVE  pc[o] = "done" /\ before'[o] = before[o]
    BY <1>3, <1>4, <1>5, <1>6, <2>4 DEF Called
  <2>5. ASSUME NEW o \in Logouts, NEW q \in Jobs(Guarded), pc'[o] = "done", o \in before'[q],
               Token(q) = Token(o)
        PROVE  pc'[q] = "refused"
    <3>1. pc[o] = "done" /\ Token(o) \in blacklist
      BY <1>3, <2>1, <2>4, <2>5 DEF LoggedOut
    <3>2. CASE Called(q)
      BY <1>3, <1>4, <1>5, <2>1, <2>5, <3>1, <3>2 DEF LoggedOut, HasEnded, Ended
    <3>3. CASE ~Called(q)
      <4>1. Called(q)'
        BY <1>3, <1>7, <2>5, <3>3
      <4>2. RequireAuth(q)
        BY <1>3, <3>3, <4>1, Arrivals
           DEF Guarded, Public, LookUp, GetByTokenHash, Arrives, Jobs
      <4>3. Goto(q, Admission(q, IsBlacklisted(Token(q)))) \/ Error
        BY <4>2 DEF RequireAuth, Token
      <4>4. ~Error
        BY <2>1 DEF Error, CallsInv, CallTypes
      <4>5. Goto(q, "refused")
        BY <2>5, <3>1, <4>3, <4>4 DEF Admission, IsBlacklisted
      <4>6. QED
        BY <1>3, <4>5 DEF Goto, CallsInv, CallTypes
    <3>4. QED
      BY <3>2, <3>3
  <2>6. ASSUME NEW o \in Logouts, NEW q \in Refreshes, pc'[o] = "done", o \in before'[q],
               held'[q].id = Who(o), Token(q) \in OldSessions \cup before'[o]
        PROVE  pc'[q] = "refused"
    <3>1. pc[o] = "done" /\ before'[o] = before[o]
      BY <1>3, <2>4, <2>6
    <3>2. CASE Called(q)
      BY <1>3, <1>4, <1>5, <2>1, <2>6, <3>1, <3>2, RefreshesReadOnce, ZenonT(60)
         DEF LoggedOut, HasEnded, Ended
    <3>3. CASE ~Called(q)
      <4>1. Called(q)' /\ GetByTokenHash(q)
        BY <1>3, <1>7, <1>8, <2>6, <3>3
      <4>2. CASE tokens[Token(q)] = "live"
        <5>1. held'[q] = [id |-> Owner(Token(q))]
          BY <1>3, <4>1, <4>2 DEF GetByTokenHash, Read, Token, CallsInv, CallTypes
        <5>2. Token(q) \in EndedBy(o)
          BY <1>9, <1>10, <2>6, <3>1, <4>1, <5>1 DEF EndedBy
        <5>3. QED
          BY <2>1, <3>1, <4>2, <5>2 DEF LoggedOut
      <4>3. CASE tokens[Token(q)] # "live"
        BY <1>3, <4>1, <4>3 DEF GetByTokenHash, Goto, Token, CallsInv, CallTypes
      <4>4. QED
        BY <4>2, <4>3
    <3>4. QED
      BY <3>2, <3>3
  <2>7. QED
    BY <1>3, <2>2, <2>3, <2>5, <2>6 DEF LoggedOut, Token, Who
<1>14. QED
  BY <1>11, <1>12, <1>13 DEF SessionsInv

(* Without errors an ended session stays ended, for every pool and load.   *)
THEOREM EndedSessionsDoStayEnded == BackOfficeSpec => []EndedSessionsStayEnded
<1>1. BackOfficeInit => SessionsInv
  <2> SUFFICES ASSUME BackOfficeInit PROVE SessionsInv
    OBVIOUS
  <2>1. \A q \in load.work : pc[q] = "new"
    BY DEF BackOfficeInit, CallsInit
  <2>2. \A q \in load.work : before[q] = {}
    BY DEF BackOfficeInit, CallsInit
  <2>3. TokensAreHeld
    BY <2>1 DEF BackOfficeInit, SessionsInit, TokensAreHeld, Refreshes, Jobs, Called
  <2>4. QED
    BY <2>1, <2>2, <2>3 DEF SessionsInv, ExchangedOnce, LoggedOut, Refreshes, Logouts, Jobs
<1>2. SessionsInv /\ UNCHANGED backOfficeVars => SessionsInv'
  <2> SUFFICES ASSUME SessionsInv, UNCHANGED backOfficeVars PROVE SessionsInv'
    OBVIOUS
  <2>1. /\ UNCHANGED <<load, pc, held, before, errors, tokens, blacklist>>
        /\ Refreshes' = Refreshes /\ Logouts' = Logouts /\ Tokens' = Tokens
        /\ Jobs(Guarded)' = Jobs(Guarded)
    BY DEF backOfficeVars, callVars, tables, Refreshes, Logouts, Tokens, Guarded, Jobs
  <2>2. TokensAreHeld'
    BY <2>1 DEF SessionsInv, TokensAreHeld, Called, Holds, Jobs, Token
  <2>3. ExchangedOnce => ExchangedOnce'
    BY <2>1 DEF ExchangedOnce, Token
  <2>4. \A o : EndedBy(o)' = EndedBy(o)
    BY <2>1 DEF EndedBy, Owner, Who
  <2>5. ASSUME LoggedOut PROVE LoggedOut'
    <3>1. (\A o \in Logouts : pc[o] \in {"revoke all", "done"} => Token(o) \in blacklist)'
      BY <2>1, <2>5 DEF LoggedOut, Token
    <3>2. (\A o \in Logouts : pc[o] = "done" => \A t \in EndedBy(o) : tokens[t] # "live")'
      BY <2>1, <2>4, <2>5 DEF LoggedOut
    <3>3. (\A o \in Logouts : \A q \in Jobs(Guarded) :
             pc[o] = "done" /\ o \in before[q] /\ Token(q) = Token(o) => pc[q] = "refused")'
      BY <2>1, <2>5 DEF LoggedOut, Token
    <3>4. (\A o \in Logouts : \A q \in Refreshes :
             /\ pc[o] = "done" /\ o \in before[q]
             /\ held[q].id = Who(o) /\ Token(q) \in OldSessions \cup before[o]
             => pc[q] = "refused")'
      BY <2>1, <2>5 DEF LoggedOut, Token, Who
    <3>5. QED
      BY <3>1, <3>2, <3>3, <3>4 DEF LoggedOut
  <2>6. QED
    BY <2>1, <2>2, <2>3, <2>5 DEF SessionsInv, Calm
<1>3. SessionsInv => EndedSessionsStayEnded
  BY DEF SessionsInv, TokensAreHeld, ExchangedOnce, LoggedOut, EndedSessionsStayEnded,
         Refreshes, Logouts, Token
<1>4. QED
  BY <1>1, <1>2, <1>3, CallsAreInOrder, SessionsStep, PTL DEF BackOfficeSpec
=============================================================================
