-------------------------- MODULE ExternalAccounts --------------------------
(***************************************************************************)
(* Accounts at NorthWind that users register.  Registering starts a        *)
(* goroutine that asks NorthWind about the account and saves the answer    *)
(* into the copy of the row it read before asking.                         *)
(***************************************************************************)
EXTENDS Customers

CONSTANTS
  Externals,      \* external accounts there are or can be
  FirstExternal   \* FirstExternal[x]: the row of x at the start, or NoExternal

VARIABLE externals  \* externals[x]: the row of external account x, or NoExternal

ExternalRow == [owner : Clients, number : STRING, deleted : BOOLEAN,
                status : {"pending", "verified", "failed"}]
NoExternal == [owner |-> "none"]

(* A registration inserts a new row and starts a verification of its own. *)
ASSUME ExternalAssumption ==
  /\ FirstExternal \in [Externals -> ExternalRow \cup {NoExternal}]
  /\ \A r \in Requests : JobOf[r].external \in Externals /\ JobOf[r].number \in STRING
  /\ \A r \in {q \in Requests : Op(q) = "register external"} :
       LET v == JobOf[r].verifier IN
       /\ FirstExternal[JobOf[r].external] = NoExternal
       /\ v \in Requests /\ Op(v) = "verify" /\ JobOf[v].external = JobOf[r].external
       /\ \A q \in {p \in Requests : Op(p) = "register external"} \ {r} :
            JobOf[q].external # JobOf[r].external

NewExternal(u, number) ==
  [owner |-> u, number |-> number, deleted |-> FALSE, status |-> "pending"]

-----------------------------------------------------------------------------
(* Queries and statements. *)

FindByID(x) == externals[x] # NoExternal /\ ~externals[x].deleted

FindByUserID(u) == {x \in Externals : FindByID(x) /\ externals[x].owner = u}

ExternalExists(u, number) == \E x \in FindByUserID(u) : externals[x].number = number

(* The unique index on owner and number leaves deleted rows out. *)
NumberTaken(x, row) == \E y \in FindByUserID(row.owner) \ {x} : externals[y].number = row.number

(* Mutant: the row is marked as inactive, not as deleted. *)
DeleteExternalRowSoftly(x) ==
  externals' = [externals EXCEPT ![x] = IF FindByID(x) THEN [@ EXCEPT !.status = "failed"] ELSE @]

DeleteExternalRow(x) ==
  externals' = [externals EXCEPT ![x] = IF FindByID(x) THEN [@ EXCEPT !.deleted = TRUE] ELSE @]

(* Saving a copy of a deleted row inserts it again, unless its number has  *)
(* been registered anew.                                                   *)
PutExternal(r, x, row, next) ==
  IF NumberTaken(x, row)
    THEN Goto(r, "failed") /\ UNCHANGED externals
    ELSE externals' = [externals EXCEPT ![x] = row] /\ next

-----------------------------------------------------------------------------
DecideExternal(r, op, step, ok, next) ==
  Runs(r, {op}, step) /\ Goto(r, IF ok THEN next ELSE "refused") /\ UNCHANGED externals

(* The verifier v of the new row starts with the insert. *)
StartVerifier(r, v) ==
  pc' = [pc EXCEPT ![r] = "done", ![v] = "find"] /\ UNCHANGED held

RegisterExternalAccount(r) ==
  LET x == JobOf[r].external IN
  \/ DecideExternal(r, "register external", "start", GetByID(Who(r)), "exists")
  \/ DecideExternal(r, "register external", "exists",
                    ~ExternalExists(Who(r), JobOf[r].number), "insert")
  \/ /\ pc[r] = "insert" /\ Op(r) = "register external" /\ UNCHANGED <<load, errors>>
     /\ PutExternal(r, x, NewExternal(Who(r), JobOf[r].number), StartVerifier(r, JobOf[r].verifier))
     /\ before' = IF pc'[r] = "done" THEN [before EXCEPT ![JobOf[r].verifier] = Finished] ELSE before

(* What NorthWind says of a number, or that it cannot be asked. *)
Verdict(row, answer) == [row EXCEPT !.status = IF answer = "valid" THEN "verified" ELSE "failed"]

VerifyFind(r) ==
  LET x == JobOf[r].external IN
  /\ Runs(r, {"verify"}, "find") /\ UNCHANGED externals
  /\ IF FindByID(x) THEN Read(r, "ask", [id |-> x, row |-> externals[x]]) ELSE Goto(r, "refused")

VerifyAsk(r) ==
  /\ Runs(r, {"verify"}, "ask") /\ UNCHANGED externals
  /\ \E answer \in {"valid", "invalid", "unreachable"} :
       Read(r, "save external", [held[r] EXCEPT !.row = Verdict(@, answer)])

VerifySave(r) ==
  /\ Runs(r, {"verify"}, "save external")
  /\ PutExternal(r, held[r].id, held[r].row, Goto(r, "done"))

VerifyAccountWithNorthWind(r) == VerifyFind(r) \/ VerifyAsk(r) \/ VerifySave(r)

MayUse(r) == FindByID(JobOf[r].external) /\ externals[JobOf[r].external].owner = Who(r)

GetExternalAccount(r) == DecideExternal(r, "external", "start", MayUse(r), "done")

DeleteExternalAccount(r) ==
  \/ DecideExternal(r, "delete external", "start", MayUse(r), "remove")
  \/ /\ Runs(r, {"delete external"}, "remove")
     /\ DeleteExternalRow(JobOf[r].external) /\ Goto(r, "done")
=============================================================================
