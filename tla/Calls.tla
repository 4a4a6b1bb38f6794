------------------------------- MODULE Calls -------------------------------
(***************************************************************************)
(* Requests of the back office as the server runs them: each is a chain of *)
(* database statements, the chains interleave, and what a statement read   *)
(* is a copy by the time the next one runs.  A request is one of a pool,   *)
(* called at most once; the load says which of the pool there are, and the *)
(* variables know of no other.                                             *)
(***************************************************************************)
EXTENDS Naturals, FiniteSets

CONSTANTS
  Pool,       \* Pool[r]: what request r asks for
  Loads,      \* the loads of a behaviour
  MaxErrors   \* database errors and crashes in a behaviour (a bound)

Requests == DOMAIN Pool
JobOf == Pool  \* TLC evaluates a definition once, and a constant at each use

ASSUME CallAssumption ==
  /\ MaxErrors \in Nat
  /\ \A l \in Loads :
       l.work \subseteq Requests /\ IsFiniteSet(l.work) /\ l.errors \in 0..MaxErrors

VARIABLES
  load,    \* the load of the behaviour
  pc,      \* pc[r]: the next statement of request r, or how it ended
  held,    \* held[r]: what r has read
  before,  \* before[r]: the requests that had ended when r was called
  errors   \* errors and crashes that can still happen

callVars == <<load, pc, held, before, errors>>

Ended == {"done", "wrong", "refused", "failed"}
Nothing == [id |-> "nothing"]

Op(r) == JobOf[r].op
Jobs(ops) == {r \in load.work : Op(r) \in ops}

Called(r) == pc[r] # "new"
HasEnded(r) == pc[r] \in Ended
Finished == {r \in load.work : HasEnded(r)}

(* Request r has been called, and neither it nor q ended before the other was. *)
Overlap(q, r) == Called(q) /\ Called(r) /\ q \notin before[r] /\ r \notin before[q]

Calm == errors = load.errors

CallsInit ==
  /\ load \in Loads /\ errors = load.errors
  /\ pc = [r \in load.work |-> "new"]
  /\ held = [r \in load.work |-> Nothing]
  /\ before = [r \in load.work |-> {}]

-----------------------------------------------------------------------------
Goto(r, step) == pc' = [pc EXCEPT ![r] = step] /\ UNCHANGED held
Read(r, step, copy) ==
  pc' = [pc EXCEPT ![r] = step] /\ held' = [held EXCEPT ![r] = copy]

Error == errors > 0 /\ errors' = errors - 1

(* A request arrives with its first statement. *)
Arrives(r, ops) ==
  /\ pc[r] = "new" /\ Op(r) \in ops
  /\ before' = [before EXCEPT ![r] = Finished]
  /\ UNCHANGED load

At(r, ops, step) ==
  /\ pc[r] = step /\ Op(r) \in ops
  /\ UNCHANGED <<load, before>>

Runs(r, ops, step) == At(r, ops, step) /\ UNCHANGED errors

(* A statement whose error is only logged. *)
Logged(statement, table) == (statement /\ UNCHANGED errors) \/ (Error /\ UNCHANGED table)

(* A statement whose error ends the request. *)
Breaks(r, logged) ==
  /\ pc[r] \notin Ended \cup logged \cup {"new"}
  /\ Error /\ Goto(r, "failed") /\ UNCHANGED <<load, before>>

(* The process is killed: no request under way goes on. *)
Killed ==
  /\ Error
  /\ pc' = [r \in load.work |-> IF Called(r) /\ ~HasEnded(r) THEN "failed" ELSE pc[r]]
  /\ UNCHANGED <<load, held, before>>
=============================================================================
