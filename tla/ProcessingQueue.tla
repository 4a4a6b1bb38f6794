-------------------------- MODULE ProcessingQueue --------------------------
(***************************************************************************)
(* The transaction processing queue and its circuit breaker.  Each second  *)
(* the service fetches the items that are due and starts a goroutine for   *)
(* each; a semaphore lets MaxWorkers of them run.  A goroutine works on    *)
(* the copy of the item that was fetched, and nothing marks an item as     *)
(* being processed.                                                        *)
(*                                                                         *)
(* The account is left out but for the number of times an operation has    *)
(* changed its balance: UpdateBalance may refuse for reasons of its own.   *)
(* The items of a behaviour are at most twice MaxWorkers, the limit of a   *)
(* fetch, so a fetch returns all that are due and priorities do not show.  *)
(***************************************************************************)
EXTENDS WorkerProcess, FiniteSets, Functions

CONSTANTS
  Items,           \* queue items, each with a transaction of its own
  OperationOf,     \* OperationOf[i]: "process" or "reverse"
  Duplicates,      \* items whose transaction reuses an earlier one's reference
  Goroutines,      \* goroutines that can exist at a time (a bound)
  MaxWorkers,      \* size of the semaphore
  MaxRetries,      \* the column's default
  MaxFailures,     \* failures that open the breaker
  HalfOpenMaxSucc  \* successes that close it again

ASSUME QueueAssumption ==
  /\ OperationOf \in [Items -> {"process", "reverse"}]
  /\ Duplicates \subseteq Items
  /\ IsFiniteSet(Items) /\ IsFiniteSet(Goroutines)
  /\ Cardinality(Items) <= 2 * MaxWorkers
  /\ {MaxWorkers, MaxRetries, MaxFailures, HalfOpenMaxSucc} \subseteq Nat \ {0}

VARIABLES
  items,     \* items[i]: the row of item i, or NoItem
  txns,      \* txns[i]: the status and version of item i's transaction
  breaker,   \* the circuit breaker
  gos,       \* gos[g]: what goroutine g does, with its copies
  rejects,   \* the mapper validates an empty struct, as the pinned version does
  applied    \* applied[i]: how often item i's operation changed the balance

queueTables == <<items, txns, breaker, gos, rejects, applied>>
queueVars == <<processVars, queueTables>>

(* A row: pending, completed or failed, its count of retries, and whether *)
(* its time has come.  Nothing marks a row as processing.                 *)
NoItem == [status |-> "none", retries |-> 0, due |-> FALSE]

Start(i) == IF OperationOf[i] = "process" THEN "pending" ELSE "completed"
Goal(i) == IF OperationOf[i] = "process" THEN "completed" ELSE "reversed"

Gone == [step |-> "gone"]

(* Counting stops where no property tells the numbers apart (a bound). *)
CountLimit == MaxRetries + MaxErrors + 1

NewBreaker == [state |-> "closed", failures |-> 0, successes |-> 0, cooled |-> FALSE]

QueueInit ==
  /\ ProcessInit
  /\ items = [i \in Items |-> NoItem]
  /\ txns = [i \in Items |-> [status |-> Start(i), version |-> 1]]
  /\ breaker = NewBreaker
  /\ gos = [g \in Goroutines |-> Gone]
  /\ rejects \in BOOLEAN
  /\ applied = [i \in Items |-> 0]

-----------------------------------------------------------------------------
(* The circuit breaker.  cooled: ResetTimeout has passed since the last    *)
(* failure.  Asking an open breaker that has cooled makes it half open,    *)
(* and every caller is admitted then.                                      *)

(* Mutant: the breaker does not look at the clock. *)
AskedAlways(b) == b

Asked(b) ==
  IF b.state = "open" /\ b.cooled
    THEN [b EXCEPT !.state = "half open", !.successes = 0, !.cooled = FALSE] ELSE b

Opened(b) == [b EXCEPT !.state = "open", !.successes = 0]

AfterSuccess(b) ==
  CASE b.state = "half open" /\ b.successes + 1 >= HalfOpenMaxSucc ->
         [b EXCEPT !.state = "closed", !.failures = 0, !.successes = 0]
    [] b.state = "half open" /\ b.successes + 1 < HalfOpenMaxSucc ->
         [b EXCEPT !.successes = @ + 1]
    [] b.state = "closed" -> [b EXCEPT !.failures = 0]
    [] OTHER -> b

(* Mutant: one failure more than MaxFailures. *)
AfterFailureLate(b) ==
  LET c == [b EXCEPT !.cooled = FALSE]
      counted == [c EXCEPT !.failures = @ + 1] IN
  CASE b.state = "half open" -> Opened(c)
    [] b.state = "closed" -> IF counted.failures > MaxFailures THEN Opened(counted) ELSE counted
    [] OTHER -> c

(* Opening leaves the count of failures; only closing resets it. *)
AfterFailure(b) ==
  LET c == [b EXCEPT !.cooled = FALSE]
      counted == [c EXCEPT !.failures = @ + 1] IN
  CASE b.state = "half open" -> Opened(c)
    [] b.state = "closed" -> IF counted.failures >= MaxFailures THEN Opened(counted) ELSE counted
    [] OTHER -> c

RecordSuccess == breaker' = AfterSuccess(breaker)
RecordFailure == breaker' = AfterFailure(breaker)

-----------------------------------------------------------------------------
(* EnqueueTransaction.  Nothing in the program calls it yet, and           *)
(* PostgreSQL rejects the empty string it stores in the jsonb column; the  *)
(* SQLite database of the tests takes it.                                  *)

Enqueue(i) ==
  /\ items[i] = NoItem
  /\ items' = [items EXCEPT ![i] = [status |-> "pending", retries |-> 0, due |-> TRUE]]
  /\ UNCHANGED <<txns, breaker, gos, processVars, rejects, applied>>

(* Mutant: finished items are fetched too. *)
FetchDue == {i \in Items : items[i].status # "none" /\ items[i].due}

FetchPending == {i \in Items : items[i].status = "pending" /\ items[i].due}

(* A tick starts a goroutine for each item found; which is which makes no  *)
(* difference.  A fetch that fails is logged, and the next tick fetches    *)
(* again.                                                                  *)
QueueTick ==
  LET free == {g \in Goroutines : gos[g] = Gone} IN
  /\ prompt => free = Goroutines
  /\ FetchPending # {}
  /\ Cardinality(FetchPending) <= Cardinality(free)
  /\ LET go == CHOOSE f \in Injection(FetchPending, free) : TRUE IN
     gos' = [g \in Goroutines |->
       IF g \in Range(go)
         THEN LET i == Inverse(go, FetchPending, free)[g]
              IN [step |-> "waiting", id |-> i, read |-> items[i].retries]
         ELSE gos[g]]
  /\ UNCHANGED <<items, txns, breaker, processVars, rejects, applied>>

-----------------------------------------------------------------------------
(* ProcessQueueItem, by goroutine g. *)

(* read: the retry count or version a goroutine has read, while it matters. *)
StepReading(g, from, to, value) ==
  gos[g].step = from /\ gos' = [gos EXCEPT ![g].step = to, ![g].read = value]
Step(g, from, to) == StepReading(g, from, to, 0)
Finish(g, from) == gos[g].step = from /\ gos' = [gos EXCEPT ![g] = Gone]

Running == {g \in Goroutines : gos[g].step \notin {"gone", "waiting"}}

(* Mutant: one retry more than MaxRetries. *)
AdmitLate(g) ==
  LET b == Asked(breaker) IN
  /\ Cardinality(Running) < MaxWorkers
  /\ breaker' = b
  /\ \/ b.state = "open" /\ Finish(g, "waiting")
     \/ /\ b.state # "open"
        /\ Step(g, "waiting", IF gos[g].read > MaxRetries THEN "fail" ELSE "fetch")
  /\ UNCHANGED <<items, txns, processVars, rejects, applied>>

(* The semaphore, then validateProcessingPreconditions. *)
Admit(g) ==
  LET b == Asked(breaker) IN
  /\ Cardinality(Running) < MaxWorkers
  /\ breaker' = b
  /\ \/ b.state = "open" /\ Finish(g, "waiting")
     \/ /\ b.state # "open"
        /\ Step(g, "waiting", IF gos[g].read >= MaxRetries THEN "fail" ELSE "fetch")
  /\ UNCHANGED <<items, txns, processVars, rejects, applied>>

(* Any error of the operation is a failure to the breaker. *)
Fails(g, from) == Step(g, from, "retry") /\ RecordFailure

(* fetchAndValidateTransaction, and the status the operation requires. *)
FetchTransaction(g) ==
  LET i == gos[g].id IN
  /\ gos[g].step = "fetch"
  /\ \/ Error /\ Fails(g, "fetch")
     \/ /\ UNCHANGED errors
        /\ IF i \in Duplicates THEN Step(g, "fetch", "duplicate") /\ UNCHANGED breaker
           ELSE IF txns[i].status # Start(i) THEN Fails(g, "fetch")
           ELSE StepReading(g, "fetch", "balance", txns[i].version) /\ UNCHANGED breaker
  /\ UNCHANGED <<items, txns, prompt, rejects, applied>>

(* updateAccountBalance and reverseAccountBalance. *)
UpdateBalance(g) ==
  LET i == gos[g].id IN
  /\ \/ /\ StepReading(g, "balance", "lock", gos[g].read)
        /\ applied' = [applied EXCEPT ![i] = IF @ < CountLimit THEN @ + 1 ELSE @]
        /\ UNCHANGED breaker
     \/ Fails(g, "balance") /\ UNCHANGED applied
  /\ UNCHANGED <<items, txns, processVars, rejects>>

(* Whether UpdateWithOptimisticLock takes effect.                          *)
Matches(i, version) == ~rejects /\ txns[i].version = version

SetTransaction(i, status) ==
  txns' = [txns EXCEPT ![i] = [status |-> status, version |-> @.version + 1]]

UpdateTransaction(g) ==
  LET i == gos[g].id  v == gos[g].read IN
  /\ gos[g].step = "lock"
  /\ \/ /\ Matches(i, v) /\ SetTransaction(i, Goal(i))
        /\ Step(g, "lock", "complete")
        /\ UNCHANGED <<breaker, errors>>
     \/ /\ ~Matches(i, v)
        /\ Fails(g, "lock") /\ UNCHANGED <<txns, errors>>
     \/ Error /\ Fails(g, "lock") /\ UNCHANGED txns
  /\ UNCHANGED <<items, prompt, rejects, applied>>

(* Nothing of an item that cannot be marked is undone. *)
MarkCompleted(g) ==
  LET i == gos[g].id IN
  /\ Finish(g, "complete")
  /\ \/ /\ items' = [items EXCEPT ![i].status = "completed"]
        /\ RecordSuccess /\ UNCHANGED errors
     \/ Error /\ UNCHANGED <<items, breaker>>
  /\ UNCHANGED <<txns, prompt, rejects, applied>>

(* handleProcessingError: IncrementRetry reads the row and saves it as     *)
(* pending, whatever another goroutine has made of it.                     *)
ReadRetry(g) ==
  /\ \/ /\ gos[g].step = "retry" /\ UNCHANGED errors
        /\ StepReading(g, "retry", "retrySave", items[gos[g].id].retries)
     \/ Error /\ Finish(g, "retry")
  /\ UNCHANGED <<items, txns, breaker, prompt, rejects, applied>>

SaveRetry(g) ==
  /\ Finish(g, "retrySave")
  /\ \/ /\ items' = [items EXCEPT ![gos[g].id] =
                       [status |-> "pending", retries |-> gos[g].read + 1, due |-> FALSE]]
        /\ UNCHANGED errors
     \/ Error /\ UNCHANGED items
  /\ UNCHANGED <<txns, breaker, prompt, rejects, applied>>

(* handleDuplicateReference: an error of the update is ignored. *)
RejectDuplicate(g) ==
  LET i == gos[g].id IN
  /\ Step(g, "duplicate", "fail")
  /\ IF Matches(i, txns[i].version) THEN SetTransaction(i, "failed") ELSE UNCHANGED txns
  /\ UNCHANGED <<items, breaker, processVars, rejects, applied>>

(* MarkFailed, by both ways an item is given up.  handleMaxRetriesExceeded *)
(* also tries to fail the transaction, with a version that never matches,  *)
(* and ignores the error.                                                  *)
MarkFailed(g) ==
  /\ Finish(g, "fail")
  /\ \/ /\ items' = [items EXCEPT ![gos[g].id].status = "failed"]
        /\ UNCHANGED errors
     \/ Error /\ UNCHANGED items
  /\ UNCHANGED <<txns, breaker, prompt, rejects, applied>>

ProcessQueueItem(g) ==
  \/ Admit(g) \/ FetchTransaction(g) \/ UpdateBalance(g) \/ UpdateTransaction(g)
  \/ MarkCompleted(g) \/ ReadRetry(g) \/ SaveRetry(g) \/ RejectDuplicate(g) \/ MarkFailed(g)

-----------------------------------------------------------------------------
(* Time, and a crash with the restart that follows it. *)

ItemComesDue(i) ==
  /\ items[i].status = "pending" /\ ~items[i].due
  /\ items' = [items EXCEPT ![i].due = TRUE]
  /\ UNCHANGED <<txns, breaker, gos, processVars, rejects, applied>>

BreakerCools ==
  /\ breaker.state = "open" /\ ~breaker.cooled
  /\ breaker' = [breaker EXCEPT !.cooled = TRUE]
  /\ UNCHANGED <<items, txns, gos, processVars, rejects, applied>>

(* The breaker lives in memory. *)
DropGoroutines ==
  /\ gos' = [g \in Goroutines |-> Gone]
  /\ breaker' = NewBreaker
  /\ UNCHANGED <<items, txns, prompt, rejects, applied>>

QueueStep ==
  \/ QueueTick
  \/ \E g \in Goroutines : ProcessQueueItem(g)
  \/ \E i \in Items : ItemComesDue(i)
  \/ BreakerCools

-----------------------------------------------------------------------------
(* No operation changes the balance more often than its retries allow, and *)
(* none does so twice unless an error intervened, or the mapper rejects    *)
(* the update of the transaction (as the pinned version always does, so    *)
(* that every retry changes the balance again).  A completed item has      *)
(* changed it, and brought its transaction to the status asked for.        *)
AppliedAsAsked ==
  \A i \in Items :
    /\ prompt => applied[i] <= (MaxErrors - errors) + (IF rejects THEN MaxRetries ELSE 1)
    /\ items[i].status = "completed" => txns[i].status = Goal(i) /\ applied[i] >= 1

Done(i) == items[i].status \in {"completed", "failed"}

(* A finished item is not taken up again, though IncrementRetry would set  *)
(* it back to pending.                                                     *)
ItemsAreFinal == [][prompt => \A i \in Items : Done(i) => items'[i] = items[i]]_queueVars

(* Every item is finished for good, whatever the breaker, the retries and  *)
(* crashes do to it on the way.                                            *)
QueueDrains == <>[](\A i \in Items : items[i] = NoItem \/ Done(i))

QueueFairness ==
  /\ WF_queueVars(QueueTick) /\ WF_queueVars(BreakerCools)
  /\ WF_queueVars(\E g \in Goroutines : ProcessQueueItem(g))
  /\ WF_queueVars(\E i \in Items : ItemComesDue(i))
=============================================================================
