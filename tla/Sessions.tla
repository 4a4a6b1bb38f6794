------------------------------ MODULE Sessions ------------------------------
(***************************************************************************)
(* Sessions: logins and their lockout, the exchange of refresh tokens, the *)
(* logout, and the check every other request passes.  A session is named   *)
(* by the request that opened it; its access token and its refresh token   *)
(* carry that name.  Tokens do not expire within a behaviour.              *)
(***************************************************************************)
EXTENDS Users

CONSTANTS
  OldSessions,   \* sessions there are at the start
  SessionOwner,  \* SessionOwner[s]: the user of the old session s
  Staff          \* an administrator's session, never ended

ASSUME SessionAssumption ==
  /\ OldSessions \cap Requests = {}
  /\ \A s \in OldSessions \ {Staff} : SessionOwner[s] \in Clients
  /\ \A r \in Requests : Op(r) = "refresh" => JobOf[r].token # Staff

VARIABLES
  tokens,    \* tokens[t]: the refresh token of session t
  blacklist  \* sessions whose access token is blacklisted

sessionTables == <<users, tokens, blacklist>>

Tokens == load.work \cup OldSessions

(* Sessions are opened by logins and refreshes, for the user they have read. *)
Owner(t) == IF t \in OldSessions THEN SessionOwner[t] ELSE held[t].id

SessionsInit ==
  /\ tokens = [t \in Tokens |-> IF t \in OldSessions THEN "live" ELSE "none"]
  /\ blacklist = {}

(* A client has the tokens it was answered. *)
Holds(t) == t \in OldSessions \cup {r \in Jobs({"login", "refresh"}) : pc[r] = "done"}

-----------------------------------------------------------------------------
(* Tokens. *)

InsertToken(t) == tokens' = [tokens EXCEPT ![t] = "live"]

(* Mutant: the stored token is saved as it was read. *)
SaveTokenUnrevoked(t) == tokens' = [tokens EXCEPT ![t] = "live"]

SaveToken(t) == tokens' = [tokens EXCEPT ![t] = "revoked"]

RevokeAllForUser(u) ==
  tokens' = [t \in Tokens |-> IF tokens[t] = "live" /\ Owner(t) = u THEN "revoked" ELSE tokens[t]]

Blacklist(t) == blacklist' = blacklist \cup {t}

IsBlacklisted(t) == t \in blacklist

-----------------------------------------------------------------------------
(* The middleware.  Only registering, logging in and refreshing go without *)
(* a session.  When the blacklist cannot be read the token passes.         *)

Public == {"register", "login", "refresh", "verify"}
AdminOps == {"profile of", "accounts of", "unlock", "delete user", "create customer", "reset password",
             "open for", "move", "delete customer"}
Guarded == {Op(r) : r \in load.work} \ Public

RequireRole(r) == Op(r) \notin AdminOps \/ JobOf[r].token = Staff

Admission(r, revoked) == IF ~revoked /\ RequireRole(r) THEN "start" ELSE "refused"

RequireAuth(r) ==
  /\ Arrives(r, Guarded) /\ (JobOf[r].token = Staff \/ Holds(JobOf[r].token))
  /\ \/ UNCHANGED errors /\ Goto(r, Admission(r, IsBlacklisted(JobOf[r].token)))
     \/ Error /\ Goto(r, Admission(r, FALSE))
  /\ UNCHANGED sessionTables

(* The user a handler takes from the session. *)
Own(r) == Op(r) \notin Public /\ Who(r) = Owner(JobOf[r].token)

-----------------------------------------------------------------------------
(* Login. *)

Copy(u, row) == [id |-> u, row |-> row]

Guess(r, u) ==
  CASE IsLocked(users[u]) -> Goto(r, "refused")
    [] ~IsLocked(users[u]) /\ ComparePassword(JobOf[r].password, users[u].hash) ->
         Read(r, "reset", Copy(u, ResetFailedAttempts(users[u])))
    [] OTHER -> Read(r, "count", Copy(u, IncrementFailedAttempts(users[u])))

LookUp(r) ==
  /\ Arrives(r, {"login"}) /\ UNCHANGED errors
  /\ \/ GetByEmail(JobOf[r].email) = {} /\ Goto(r, "wrong")
     \/ \E u \in GetByEmail(JobOf[r].email) : Guess(r, u)
  /\ UNCHANGED sessionTables

CountGuess(r) ==
  /\ At(r, {"login"}, "count") /\ Goto(r, "wrong")
  /\ Logged(UpdateFailedLoginAttempts(held[r].id, held[r].row), users)
  /\ UNCHANGED <<tokens, blacklist>>

ForgetGuesses(r) ==
  /\ At(r, {"login"}, "reset") /\ Goto(r, "issue")
  /\ Logged(UpdateFailedLoginAttempts(held[r].id, held[r].row), users)
  /\ UNCHANGED <<tokens, blacklist>>

GenerateTokens(r) ==
  /\ Runs(r, {"login", "refresh"}, "issue")
  /\ InsertToken(r) /\ Goto(r, "done")
  /\ UNCHANGED <<users, blacklist>>

Login(r) ==
  \/ LookUp(r) \/ CountGuess(r) \/ ForgetGuesses(r)
  \/ Op(r) = "login" /\ GenerateTokens(r)

-----------------------------------------------------------------------------
(* Refresh. *)

GetByTokenHash(r) ==
  /\ Arrives(r, {"refresh"}) /\ Holds(JobOf[r].token) /\ UNCHANGED errors
  /\ IF tokens[JobOf[r].token] = "live"
       THEN Read(r, "owner", [id |-> Owner(JobOf[r].token)]) ELSE Goto(r, "refused")
  /\ UNCHANGED sessionTables

FindOwner(r) ==
  /\ Runs(r, {"refresh"}, "owner")
  /\ Goto(r, IF GetByID(held[r].id) THEN "revoke" ELSE "failed")
  /\ UNCHANGED sessionTables

RevokeOld(r) ==
  /\ At(r, {"refresh"}, "revoke") /\ Goto(r, "issue")
  /\ Logged(SaveToken(JobOf[r].token), tokens)
  /\ UNCHANGED <<users, blacklist>>

RefreshTokens(r) == GetByTokenHash(r) \/ FindOwner(r) \/ RevokeOld(r)

RefreshToken(r) == RefreshTokens(r) \/ (Op(r) = "refresh" /\ GenerateTokens(r))

-----------------------------------------------------------------------------
(* Logout answers that it is done whatever its statements did. *)

BlacklistToken(r) ==
  /\ At(r, {"logout"}, "start") /\ Goto(r, "revoke all")
  /\ Logged(Blacklist(JobOf[r].token), blacklist)
  /\ UNCHANGED <<users, tokens>>

RevokeAll(r) ==
  /\ At(r, {"logout"}, "revoke all") /\ Goto(r, "done")
  /\ Logged(RevokeAllForUser(Who(r)), tokens)
  /\ UNCHANGED <<users, blacklist>>

Logout(r) == Own(r) /\ (BlacklistToken(r) \/ RevokeAll(r))

SessionStep(r) == RequireAuth(r) \/ Login(r) \/ RefreshToken(r) \/ Logout(r)

LoggedSessionSteps == {"count", "reset", "revoke", "revoke all"}

-----------------------------------------------------------------------------
(* Properties. *)

InOrder(W) == \A w \in W : \A v \in W \ {w} : w \in before[v] \/ v \in before[w]

(* Wrong passwords compared with the row of user u. *)
Guesses(u) == {w \in Jobs({"login"}) : pc[w] \in {"count", "wrong", "failed"} /\ held[w].id = u}

Unlocks(u) == {x \in Jobs({"unlock"}) : Who(x) = u}
              \cup {x \in Jobs({"login"}) : held[x].id = u}

(* Wrong passwords lock a user out: after as many as the limit, one after  *)
(* the other, the right password is refused, unless another login or an    *)
(* administrator came between; and only that many lock a user out.  The    *)
(* counter is read and written by different statements (auth_service.go:   *)
(* 117, 134), so logins that overlap lose guesses.                         *)
Lockout == \A u \in Clients :
  /\ \A g \in Jobs({"login"}) : Calm /\ pc[g] = "done" /\ held[g].id = u =>
       \A W \in SUBSET {w \in Guesses(u) \cap before[g] : pc[w] = "wrong"} :
         InOrder(W) /\ (\A x \in Unlocks(u) \ (W \cup {g}) : Called(x) => g \in before[x])
           => FirstAttempts(u) + Cardinality(W) < MaxFailedLoginAttempts
  /\ users[u] # NoUser /\ users[u].locked =>
       FirstAttempts(u) + Cardinality(Guesses(u)) >= MaxFailedLoginAttempts

PasswordWrites(u) ==
  {x \in Jobs({"reset password", "change password"}) :
     Who(x) = u /\ pc[x] \notin {"new", "refused", "wrong"}}

Replaced(r, u, earlier) ==
  \E y \in PasswordWrites(u) \cap before[r] : pc[y] = "done" /\ earlier \subseteq before[y]

(* p may be u's password at some moment of request r. *)
MayBeCurrent(r, u, p) ==
  \/ p = FirstRow[u].hash /\ ~Replaced(r, u, {})
  \/ \E x \in PasswordWrites(u) :
       JobOf[x].password = p /\ r \notin before[x] /\ ~Replaced(r, u, {x})

(* A login, or a change of password, takes a password just when it was the *)
(* user's while the request ran: a replaced password never works again,    *)
(* though a login that overlaps the change writes to the row it read       *)
(* before it (user_repository.go:133).                                     *)
PasswordsAreCurrent == \A r \in Jobs({"login", "change password"}) :
  LET u == IF Op(r) = "login" THEN held[r].id ELSE Who(r)
      p == IF Op(r) = "login" THEN JobOf[r].password ELSE JobOf[r].old
  IN u \in Clients /\ FirstRow[u] # NoUser =>
       /\ pc[r] = "done" => MayBeCurrent(r, u, p)
       /\ pc[r] = "wrong" => \E q \in Passwords \ {p} : MayBeCurrent(r, u, q)

(* Without errors an ended session stays ended: a refresh token is         *)
(* exchanged once, unless two exchanges overlap; after a logout no refresh *)
(* token the user had at its start is exchanged, and the access token it   *)
(* blacklisted is refused.  Exchanges under way save the token they read   *)
(* (auth_service.go:181) while a logout revokes it.                        *)
EndedSessionsStayEnded == Calm =>
  /\ \A r, q \in Jobs({"refresh"}) :
       JobOf[r].token = JobOf[q].token /\ pc[r] = "done" /\ pc[q] = "done" => r \notin before[q]
  /\ \A o \in Jobs({"logout"}) : pc[o] = "done" =>
       /\ \A q \in Jobs({"refresh"}) :
            /\ o \in before[q] /\ held[q].id = Who(o)
            /\ JobOf[q].token \in OldSessions \cup before[o]
            => pc[q] # "done"
       /\ \A q \in Jobs(Guarded) :
            o \in before[q] /\ JobOf[q].token = JobOf[o].token => pc[q] = "refused"
=============================================================================
