# Verification of the funds-transfer API

TLA+ models of the banking API in `src/` (Go, Echo, gorm, PostgreSQL), the TLC
configurations that check them, and proofs about them checked by TLAPS.

- [The system](#the-system): components, state, interactions, what is hard
- [Modules](#modules): which module models what, and how
- [Runs](#runs): what each checks, bounds, fairness
- [Proofs](#proofs)
- [Findings](#findings)
- [Not modelled](#not-modelled), [Plan](#plan)

## The system

HTTP handlers call services, services call repositories, repositories issue SQL
through gorm. Each call is a goroutine; the only shared state is the database,
apart from a few in-memory objects (circuit breaker, rate limiter, NorthWind
token). Few operations run in one database transaction: most read a row, decide, and
save the whole row later. That is where the hard behaviour is.

| component | state | operations | what is hard | what makes it correct |
|---|---|---|---|---|
| account store | `accounts`, `transactions`, row locks | `UpdateBalance`, `Update`, `ExecuteAtomicTransfer`, `CreateWithTransaction`, `UpdateOwnership`, `SoftDeleteByUserID` | full-row saves of stale rows; locks that may not be taken | balances are what the movements add up to; never negative |
| internal transfers | `transfers`, `audit_logs` | `TransferBetweenAccounts`, `GetTransferHistory` | idempotency races, crash between commit and status save, lost commit answers, deadlock; rows that move between pages | a key moves money at most once; rows, answers and audit agree with balances; a walk misses nothing |
| account operations | - | `PerformTransaction`, `UpdateAccountStatus`, `CloseAccount`, `CreateAccount` | check-then-act, movement committed without its record | closed accounts are empty; refused requests moved nothing |
| external transfers | `transfers` (external), NorthWind's own state | `InitiateExternalTransfer`, `CheckTransferStatus` | lost answers, stale status answers, double refunds, crash between reserve and row | one instruction per key; rows, answers and refunds agree with NorthWind |
| NorthWind's client | the cached token | `Authenticate`, `makeRequest` | callers share a token that is checked, replaced and read under three locks | a request carries a token that was good while it ran |
| regulator notifications | `regulator_notifications` | create, `SendWebhook`, retry worker, deadline sweep | two senders of one row, crash while sending | sent stays sent; attempts bounded; every notice is settled |
| processing queue | `transaction_processing_queue`, circuit breaker | enqueue, tick, `ProcessQueueItem`, retry | items fetched again while being processed; balance changed before the version check | applied within the retries; breaker opens and recovers; the queue drains |
| authentication | `users`, `refresh_tokens`, `blacklisted_tokens` | register, login, refresh, logout, the middleware, passwords, unlock | concurrent logins, one token refreshed twice, refresh racing logout | lock after three failures; tokens used once; ended sessions stay ended |
| customers | `users`, `accounts` | create, delete, change e-mail, open accounts, transfer ownership | check-then-act across tables, two-step deletion | deleted customers own no money; one account per type |
| external accounts | `external_accounts` | register, verify in background, delete | late verification | a deleted account is not revived |
| reports | none | summaries, metrics, statements, lists | queries of one report are not of one moment | each part is true of a moment; rows continue one another |
| sample data | `transactions` | history of a new account, development endpoint | balances carried from row to row | histories reconcile |
| categories | constant tables | `CategorizeTransaction` | order of a Go map, fuzzy match | typing errors keep the category; generated rows agree |
| audit, rate limiter, configuration | tables, in-memory window | inserts, token bucket | - | - |

Interactions: transfers and account operations meet in the rows of `accounts` and
`transactions`; external transfers use `UpdateBalance` as well and share the
`transfers` table and its unique index; their outcome starts notifications in
new goroutines; all calls to NorthWind go through one client; customers' operations
change ownership and status of the same account rows; sessions end with a password or
a deletion only at the next lookup of the user; reports read what movements write. The
hazards, each at its line with the properties that watch it, are in `PROJECT.json`.

## Modules

| module | models |
|---|---|
| `AccountStore` | tables `accounts` and `transactions`, row locks, `UpdateBalance`, the insert hook of `transactions` |
| `TransferService` | `TransferBetweenAccounts`, EXTENDS `AccountStore` |
| `Rows` | what a query returns: rows in an order, and a slice of them |
| `TransferHistory` | a client's walk through `GetTransferHistory`, EXTENDS `TransferService`, `Rows` |
| `AccountService` | `PerformTransaction`, `UpdateAccountStatus`, `CloseAccount`, EXTENDS `AccountStore` |
| `Bank` | both services in one process that may crash; the refinement mapping to `AtomicLedger` |
| `AtomicLedger` | what is promised: every request changes balances at most once, atomically, none below zero |
| `ExternalTransfer` | `InitiateExternalTransfer`, `CheckTransferStatus` and the partner bank NorthWind, EXTENDS `AccountStore` |
| `SampleData` | the two generators of transactions, as pure operators |
| `Statements` | what reports compute from rows: periods, totals, pages, as pure operators |
| `AccountReports` | reports and the development endpoint beside the account service, EXTENDS `AccountService`, `Statements` |
| `Levenshtein` | the edit distance of the category service, and what it is by definition |
| `Categories` | the category service: tables, exact, fuzzy and keyword matches, EXTENDS `Levenshtein` |
| `WorkerProcess` | what the background workers share: speed, errors, crashes |
| `RegulatorNotification` | notices, their first sender, the retry worker, the sweep |
| `ProcessingQueue` | queue, ticker, goroutines, semaphore, circuit breaker |
| `NorthWindClient` | the shared token, and requests with their retries |
| `Workers` | the three of them in one process |
| `Calls` | requests as chains of statements, errors, crashes: the frame of the next five |
| `Users` | the `users` table: registration, profiles, e-mails, passwords, unlocking, deletion |
| `Sessions` | logins and lockout, refresh, logout, the middleware, EXTENDS `Users` |
| `Customers` | accounts of customers: opening, status, ownership, deletion, EXTENDS `Sessions` |
| `ExternalAccounts` | registration, background verification, deletion, EXTENDS `Customers` |
| `BackOffice` | the handlers that put them together |
| `ServiceProofs`, `BankProofs` | theorems about the two services, and both together |
| `ExternalTransferProofs` | theorems about `ExternalTransfer` |
| `WorkersProofs` | theorems about `Workers` and its three parts |
| `BackOfficeProofs`, `CustomersProofs` | theorems about `BackOffice`: order of calls, external accounts and sessions; customers, passwords and lockout |
| `DataProofs` | rows in order, sums, functions defined step by step, the edit distance |
| `ReadersProofs` | theorems about `TransferHistory` and `AccountReports`, and lemmas about `SampleData` and `Statements` |
| `MCTransferService`, `MCTransferHistory`, `MCAccountReports`, `MCBank`, `MCExternalTransfer`, `MCWorkers`, `MCBackOffice` | instances for TLC |

**One SQL statement is one step.** A request is a member of `Requests`; its program
counter (`tPc`, `aPc`) names the statement it runs next, and other requests run
between any two statements. The variables hold committed rows: the writes of an open
transaction are invisible to others (READ COMMITTED), so the model applies them at
COMMIT, and until then keeps only the row locks the writes imply and the values the
transaction has read (`tFrom`, `tTo`, `aRow`). `posted` is a history variable: the
requests whose balance change has committed. The properties compare everything else
with it. The two reads of `retrieveAndAuthorizeAccounts` are followed by its checks in
the code; the model makes the checks of the source row with the source read, which
answers the same.

**Correspondence of `TransferService`.** `lookup` = `checkExistingTransfer`;
`readSource`, `readDestination` = `retrieveAndAuthorizeAccounts`; `create` =
`transferRepo.Create` in `executeTransfer`, with the unique index;
`debitSelect`, `debit`, `creditSelect`, `credit`, `commit` = the statements of
`ExecuteAtomicTransfer`; `markCompleted`, `auditCompleted` = `handleTransferSuccess`;
`markFailed`, `auditFailed` = `handleTransferFailure`. A request ends as `done`,
`replayed` (the completed transfer of the key is returned), `rejected`, `failed`,
`error` (the money moved and the save of the row failed) or `crashed`.

**Correspondence of `AccountService`.** `getAccount` = `GetAccountByID` and the checks
on its result; `updateRead`, `updateSave` = `UpdateBalance`; `record` =
`transactionRepo.Create`; `saveStatus` = `accountRepo.Update`, which saves every
column of the row read at the start.

**Correspondence of `ExternalTransfer`.** A request moves money up to twice, so a member of
`Requests` is a pair of request and movement. `readAccount`, `lookup`, `schedule` =
`InitiateExternalTransfer`; `debitRow`, `reserveRead`/`reserveSave`, `create`,
`undoRead`/`undoSave`, `instruct`, `saveProcessing`, `saveFailed`, `refundRow`,
`refundRead`/`refundSave` = the statements of `initiateTransferToNorthWind` in their
order (each Read/Save pair is one `UpdateBalance`); `ask` = the answer of NorthWind
applied to the row read; `payRow`, `payRead`/`paySave`, `fail` = `failTransfer`; `save` =
the save of the whole row. `northwind[r]` is the partner's own record of r's
instruction. The client may send an instruction more than once (a retry after a lost
answer); it carries the idempotency key as its reference, and the model takes a repeated
instruction to be the same one to NorthWind. NorthWind's answers
"pending" and "processing" are treated alike by the code and are one value. The
`status` column of `transactions` is left out: `UpdateStatus` validates an empty struct
in its hook and always fails, and the service only logs that. Only `Deactivate`
disturbs accounts from outside. An external `transfers` row shares its unique index
with internal ones, but its keys start with the user's id.

**Correspondence of `TransferHistory`.** `BeginWalk` is a client's first request;
`GetTransferHistory` is the query of one page, an offset and a limit into the rows by
`created_at`. The insert hook stamps a row before the INSERT, so a row may appear behind
rows that are there already (`createdAt`; no two rows are stamped at one instant). Claimed
is only the walk that goes on until a page is short: one that stops at the total of an earlier page, or that filters by
`pending` while rows settle, does miss rows.

**Correspondence of the workers.** Time is what the code asks of it. A deadline of a
notice is early, near or passed, a retry none, future or due, an item due or not.
`senders[s]` is a `SendWebhook` call with its copy of the row, `gos[g]` a goroutine of the
queue with its copies; both save the whole copy. `prompt` says how fast the process is:
in a prompt one a goroutine, or the row it could select, does not outlive the next tick
(one second for the queue, thirty for the notices). In a slow one two senders can post the
same notice and count one attempt, or two goroutines apply one item: the properties that
exclude this are claimed of a prompt process, the others of every process. `rejects`
is what the pinned gorm does in `UpdateStatus`: it validates an empty struct and fails.
A transaction whose item has failed for good stays pending. An item's `metadata` is
empty text where PostgreSQL wants `jsonb`, and nothing in the program enqueues: the
model takes items as the tests enqueue them. `NorthWindClient` numbers tokens as NorthWind
issues them; a fresh one has more than five minutes left. The mutex is released while a
token is asked for, so two callers may ask at once and store their answers in either
order. A 401 leaves the retry loop like every answer below 500, before the branch meant
to authenticate again (`northwind_client.go:262`).

**Correspondence of the back office.** A request is a chain of statements: `pc[r]` names
the next one, `held[r]` is what it has read, `before[r]` the requests that had ended when it
began. A definition of `BackOffice` is a handler, put together from the service calls in
`Users`, `Sessions`, `Customers` and `ExternalAccounts`; `Own(r)` and `ByAdmin(r)` are the
middleware. A hash stands for its password, a session for its two tokens; tokens do not
expire within a behaviour. `rejects` again is the pinned gorm validating an empty struct:
with it the transfer of ownership never succeeds, and deleted customers' accounts are
not marked inactive (they are deleted all the same). A session belongs to the user whom the
login or the refresh has read; ids of inserted rows are new. All a deletion asks of a
customer's total balance is whether it is zero (`TotalBalanceIsZero`). Behaviours draw their
requests from a pool, about which the modules state assumptions.

**Correspondence of the reports.** `journal` is the table in the order of insertion, `at` its
`created_at`; a set of rows is a set of positions of it. A query with `ORDER BY created_at
DESC` has no second key, so `NewestRows` is the set of the orders it may return: newest
first, rows of one instant in any order, and possibly another one the next time. A report
(`rJob`) is a chain of queries (`rPc`): `ReadMetrics`, `ReadStatement` and
`ReadStatementMetrics`, `ReadList`; `moments` is a history of the tables since it began.
Money moves between any two queries.

Each `NewUsers` is a user whose two accounts start with sample histories. The service
computes those exactly and the columns of `transactions` and `accounts` have two decimals: a step
of `SampleSteps` is a multiple of 1/unit cents, where every cut to 30 % of the balance
multiplies the unit by ten, and `StoredRow` rounds its amount and its balances each by itself
(`Cents`, halves up, as `numeric(15,2)` does). The rows of one batch insert are stamped one
after the other, so a stamp may be that of the row before. The hook checks the exact values,
so rows whose columns do not add up are accepted; one of no amount is not (`SampleAccepted`).
Generated histories (the development endpoint) keep whole cents. `SampleData` keeps their
arithmetic and the exchange sort row by row (it is not stable: it may swap rows of one
instant); what is drawn at random is a parameter.

**Correspondence of `Categories`.** `CategoryFromMCC`, `CategorizeByMerchant`,
`FuzzyMatchMerchant`, `CategorizeByDescription`, `CategorizeTransaction` keep their names
and order. A match by name is a set of results where the order of the Go map decides:
"t-mobile" contains the pattern "mobil" and may be transport, "walmart neighborhood
market" contains "hbo". The properties claim the names for which it does not. They ask
the service about every kind of row the generator stores (`GeneratedRows`: purchases and
refunds, fees, incomes, bills, salaries) and about misspelt names. A fee, and the "Direct
Deposit" that `adjustTransactionForBalance` puts in the place of a debit, keep the code of the
merchant drawn before (`FeeRows`, `IncomeRows`): the service tells the merchant's category, not the
one they are stored with, and `SampleCategoriesAgree` claims just that. `TyposAreForgiven` claims of
the names of two and three letters (bp, amc, hbo, cvs) that one without a letter is
answered `OTHER`: what is left is not near enough.
`levenshteinDistance` has the early returns of the code and fills the same matrix, one row
after another (`NextRow`).

**The schema.** `database.Initialize` runs the SQL migrations, and gorm's AutoMigrate if that
fails. Two migration files have the number 000012, which golang-migrate refuses, so the
models assume the AutoMigrate schema: unique indexes of the struct tags, no CHECK
constraints. (The migration of `transfers` would reject the status `processing` and a
row without `to_account_id`, that is, every external transfer.)

**Constants that stand for the environment.**

- `RowLocks`: whether `tx.Set("gorm:query_option", "FOR UPDATE")` locks the row. gorm v2,
  which `go.mod` pins, ignores the option: FALSE. The code is written for TRUE.
- `UpdateWritesBack`: whether `tx.Model(x).Update("balance", v)` stores `v` in `x`. gorm v2
  does: TRUE. The code is written for FALSE.
- `Faults`: any statement may return an error, and the process may crash.
- `AmbiguousCommit`: a COMMIT may take effect and its answer be lost.
- `LostAnswers`: NorthWind may accept an instruction and the answer be lost.

gorm is not in the repository; the two facts about it are constants so that a reader can
see what holds with and without them. The safety theorems hold for every value of all
four unless they say otherwise.

## Runs

| run | instance | checks | states |
|---|---|---|---|
| `transfer_safety` | 3 transfer requests, 2 keys, 2 accounts, any direction, errors, crashes, ambiguous commits, no row locks; or 2 requests and a client that walks through the history | types, `OneMovementPerKey`, `MovementsHaveRows`, `BothLegsRecorded`, `OutcomesAreFinal`, `WalksMissNothing` | 1068 k |
| `account_ops` | 3 requests of every kind by owner, administrator and stranger on one account, no row locks, errors, crashes, ambiguous commits; or 2 movements one after the other beside a report of each kind; or a category that is asked for | `ClosedIsEmpty`, `AccountAnswersAreTrue`, `RecordsFollowMovements`, `ReportsAreOfOneMoment`, `HistoriesReconcile`, `TyposAreForgiven`, `SampleCategoriesAgree` | 807 k |
| `bank_atomic` | 2 transfers, 1 deposit or withdrawal, row locks, errors, crashes | `RowsMatchMovements`, `AnswersAreTrue`, `AuditMatchesMovements`, `ImplementsAtomicLedger` | 647 k |
| `bank_liveness` | 2 transfers, 1 withdrawal or closure, row locks, no errors | `FailsOnlyForCause`, `PendingIsSettled`, `BankAnswers` | 47 k |
| `external_safety` | 2 initiations of one key, 2 polls, 2 users, 1 account, errors, crashes, ambiguous commits, lost answers, deactivation | `InstructedOncePerKey`, `RowsFollowNorthWind`, `MovementsAreAccountedFor`, `ExternalAnswersAreTrue`, `NoticesAgree` | 724 k |
| `workers` | 2 notices, or 2 queue items, or 1 in a slow process, or 2 calls of NorthWind's client, 1 error or crash | `RequestsAreCounted`, `GivesUpOnlyForCause`, `SentWasReceived`, `SettledIsFinal`, `NoticesSettle`, `AppliedAsAsked`, `ItemsAreFinal`, `QueueDrains`, `RequestsCarryTokens` | 706 k |
| `back_office` | any 3 of 14 requests around a login (4 to be locked out), of 18 around customers or of 7 around external accounts; any 2 with an error or a crash | `Lockout`, `PasswordsAreCurrent`, `EndedSessionsStayEnded`, `DeletedOwnNothing`, `OneAccountPerType`, `ExternalStaysDeleted` | 561 k |
| `transfer_writeback` | 1 transfer, `UpdateWritesBack` | `FailsOnlyForCause` is violated | |
| `bank_lost_update` | 2 deposits, no row locks | `BalancesAddUp` is violated | |
| `external_final` | 1 transfer, 2 polls, no errors | `ExternalOutcomesAreFinal` is violated | |
| `external_reserve` | 1 transfer, no errors | `ReservationsTakeMoney` is violated | |
| `statement_balances` | statements of a month with 2 sample rows and 2 movements | `StatementBalances` is violated | |

**Loads.** `workers`, `back_office` and `account_ops` put parts into one run that share tables or a
process but are too many to run at once. A `load`, chosen at the start, says what a
behaviour contains; everything else idles. `MCWorkers`, `MCBackOffice` and
`MCAccountReports` list the loads, each small enough for every interleaving.

**Why these bounds.** The races are between pairs of requests; a third one sees what
the pair left behind (a retry after a crash, a deposit between two transfers). Two
keys let requests share a key or not. One amount of 2 and opening balances of 3 and 2
(or 3 and 0) make the first transfer succeed and the second fail for lack of funds, and
make the overdraft possible that the checks must prevent; a transfer back makes it
possible again. Two accounts allow transfers in opposite directions, the only way to a
deadlock. Transfers to NorthWind under different keys meet only in the
balance, which the model of internal transfers covers; one key keeps two initiations and
two polls small enough for every interleaving. Symmetry is used only where no liveness is checked, on requests (and keys),
which the specifications treat alike.

The workers' thresholds are as small as keeps their cases apart: `MaxAttempts` 2 (a
notice is retried once and given up), `MaxRetries` 2, `MaxFailures` 2 and one success to
close the breaker again, a semaphore of 2, a batch of 1 (the second due notice waits for
the next tick). `Sweepers` and `Goroutines` bound what can run at a time; the code has no
bound, and what more goroutines would do these do one after the other. `CountLimit`
stops counters where no property tells the numbers apart. Calls of the client retry once
(`RetryAttempts` 1).

In the back office three requests suffice for a check, the act that invalidates it, and
a third party that sees the result; the lockout needs three wrong passwords and a right
one (`MaxFailedLoginAttempts` is 3 in the code as well), so behaviours start with 0, 1 or
2 attempts already counted. Deadlock is not checked there, nor in `workers`: requests
and calls end, and then nothing is left to do.

For reports a tick is the unit of the clock, a period has 9 of them (`PeriodLength`), the
last of which is the fraction of a second that `SecondLength` leaves out at a period's
end, and metrics without dates cover 2. The clock starts at 8 (`FirstNow`), after every
sample row, and stops at 9 (`MaxNow`), the first instant of the next period: a row is the
newest of its period, in the fraction left out, or in the next one. Pages have 1 to 3 rows
and accounts up to 8 rows of their own history. Its amounts are cents and in the ranges the
code draws from: six debits of about 549.00 bring a deposit of 2000.00 to the third cut,
which has fractions of a cent, and a last debit to a target below it; another history ends at its
target, so it has no last step; both have rows of one instant.
The walk has pages of one row (`PageLimits`), so every row can fall between two pages,
and `MaxActive` bounds those who act while it goes on; one walk is enough because it
changes nothing. A report, too, is one per behaviour, with a second only to follow what a
first has generated or the cursor it returned. Generated histories are inserted into empty
accounts; beside sample rows they would only meet more rows. Categories: every row
of `GeneratedRows`, every known name without one of its letters (but the names that hold
another known name), all pairs of words of up to three letters.

**Fairness.** `TransferStep(r)` and `AccountStep(r)`, what a goroutine does after its call has
arrived, are weakly fair: the Go scheduler runs every runnable goroutine and PostgreSQL
answers every statement or breaks a deadlock. Calls, errors and crashes are not fair.
Weak fairness suffices for lock waits because a request runs a bounded number of
statements and every holder releases: nobody can be overtaken for ever.

In `workers` the steps of the senders, of the notification worker, of the queue's ticker and
of its goroutines are weakly fair for the same reason, and so is what only time does: a
retry comes due, the breaker cools. Errors and crashes are not fair, and at most one
occurs. `NoticesSettle` and `QueueDrains` are `<>[]`: settled for good. NorthWind's
client, reports and the back office have safety properties only; all they do ends.

**What `bank_liveness` does not claim.** After a crash, or a failed save of the status, a
transfer stays pending and nothing in the code settles it; the run has no `Faults`.

**What `external_safety` does not claim.** With a lost answer the service refunds a transfer that
NorthWind has accepted; the properties name that case and exclude every other. Two
polls of one failed transfer may both refund it: `MovementsAreAccountedFor` bounds the
cause and the record of every refund, not the number, because the code does refund
twice. Nothing polls on its own (the monitor service is a stub), so no liveness is
claimed of external transfers.

**What `back_office` does not claim.** Most checks of the back office are made by one
statement and relied on by another. Each property names the overlaps it excludes, and
they are real: failed logins that overlap lose counts; a login under way lifts a lock;
two overlapping refreshes of one token both succeed; a refresh under way issues a token that
outlives a logout; a deposit under way restores a deleted account; two creations under
way open two accounts of a type; a verification under way inserts a deleted external
account again.

**What `account_ops` does not claim of reports.** A statement's metrics are read again after
its rows: they are of a later moment, and the property asks one moment of each part. Rows
of an account continue one another only if its movements do not overlap (each records
the balance of a read of its own), hence the serial calls in the loads with reports. They
do so in the order of insertion, which is not always the order a statement shows: rows of one
instant come in any order, so `StatementReconciles` speaks of the rows a statement shows
(`ShowsNewestFirst`) and of the balances of those rows in the table (`ContinueOneAnother`). Up to rounding: a
row of a sample history may be off by a cent, and the net of a whole history from the
balance by half a cent for each row (`LeadTo`).

**Where exact balances are claimed.** `ImplementsAtomicLedger` needs `RowLocks`, and no
concurrent status change: `Update` saves the balance it read and takes no lock.

Every property has a mutant in `PROJECT.json`: a plausible mistake in the code, written as an
operator beside the definition it replaces, which makes TLC find the property
violated.

## Proofs

Eight modules prove 41 listed theorems and the lemmas they rest on, for any sets of requests,
keys, accounts, users, notices, items and callers, any amounts, and any values of `RowLocks`, `UpdateWritesBack`,
`Faults`, `AmbiguousCommit`, `LostAnswers`, `prompt` and `rejects` unless a line says
otherwise. They rest on the `...Assumption`s of the modules, which say what the constants
are; TLC evaluates each on a run. What those ask for beyond types: an account
that is closed at the start is empty; notices, sweepers, items and goroutines
are finitely many, and a fetch of the queue returns all items that are due; in the back
office, see below.

Each proof has the same form: an inductive invariant, one lemma for each action that
disturbs it (or for each conjunct it could disturb), and one for the steps of all other
requests, which touch rows of their own. Every inductive invariant was checked by
TLC, on the instance of the run that checks its component, before it was proved.

Some facts need induction over data. The library's induction theorems take an operator
as a parameter, which the provers cannot instantiate; `DataProofs` derives what is needed from
the well-foundedness of strict inclusion, as statements about sets: `SetInduction` (a set of
subsets of a finite set that has each subset whose proper subsets it has, has all of
them), `StepByStep` (a set that has m, and with each number the next, has all up to n)
and `StepsExist` (a first value and the step from each to the next make a function, so
the recursive functions of the models are the ones their equations describe). A predicate
becomes the set of what satisfies it.

**`ServiceProofs`**, of `TransferServiceSpec`

| theorem | property | assumes |
|---|---|---|
| `TypesAreCorrect` | `StoreTypeOK`, `TransferTypeOK` | |
| `KeysMoveOnce` | `OneMovementPerKey` | |
| `MovementsAreVisible` | `MovementsHaveRows` | |
| `RowsTellTheTruth` | `RowsMatchMovements` | `~AmbiguousCommit` |
| `ClientsAreToldTheTruth` | `AnswersAreTrue` | `~AmbiguousCommit` |
| `AuditTellsTheTruth` | `AuditMatchesMovements` | `~AmbiguousCommit` |
| `OutcomesStayFinal` | `OutcomesAreFinal` | |
| `TransfersAreRecorded` | `BothLegsRecorded` | |

*Types.* `StoreTypeOK` is not inductive: that a committed balance is natural needs that
the source balance the transaction read covers the amount (`SourceCanPay`), and that
values of one request are not changed by another. `TypeInv` adds this, and that a request
past its insert owns the row of its key (`OwnsRow`).

*Keys.* No property about `posted` is inductive alone, because between the insert of the row
and the commit nothing in `posted` shows which request may still move money.
`KeyInv` says who may act on a row: a row was inserted by a request with its key
(`RowsHaveCallers`); a request between insert and status save has its row pending
(`OpenRowsPend`); a request that moved money owns its key's row (`MoversOwnRows`), so
two of them with one key are the same request; a success is claimed only after the
movement (`SuccessesMoved`); and, without ambiguous commits, rows, answers and audit
events follow it (`RowsAreHonest`, `AnswersHaveRows`, `AuditHasRows`). Each action
touches one request and one row, and most conjuncts are kept because that row is its
own.

*Records.* `LedgerInv` says of one request what the table holds of it: nothing, or two
legs. Only the commit inserts, and its two rows are the whole of what the request has.

**`ServiceProofs`**, of `AccountServiceSpec`

| theorem | property |
|---|---|
| `AccountTypesAreCorrect` | `StoreTypeOK` |
| `ClosedStaysEmpty` | `ClosedIsEmpty` |
| `AccountAnswersHold` | `AccountAnswersAreTrue` |
| `RecordsDoFollow` | `RecordsFollowMovements` |

`ClosedIsEmpty` looks as if it could not survive stale saves. It does because every save is of a
whole row that was once committed and checked: `SavesAreChecked` says that the copy
about to be saved passed the check of its own request, and a closed row only
passes the check that it is empty, a movement only a row that is not closed. Which row is
in the table by then does not matter. `PostedCalls` and `RecordsInv` say where a request
can be that has moved its money, and which rows it has inserted.

**`BankProofs`**, of `BankSpec`

| theorem | property | assumes |
|---|---|---|
| `BankKeysMoveOnce` | `OneMovementPerKey` | |
| `BankTellsTheTruth` | `RowsMatchMovements`, `AnswersAreTrue`, `AuditMatchesMovements` | `~AmbiguousCommit` |
| `LocksMakeItAtomic` | `ImplementsAtomicLedger` | `RowLocks`, only deposits and withdrawals |
| `TransfersFailForCause` | `FailsOnlyForCause` | `~Faults`, `~AmbiguousCommit`, `~UpdateWritesBack` |

`ServicesInv` is the conjunction of both services' invariants; a step of one service is a
stutter for most of the other's variables, and what they share (`posted`, `ledger`, the
rows of accounts) is indexed by request or described by types.

`LocksMakeItAtomic` is the safety part of the refinement, `AtomicLedger` being the promise.
`LocksInv` says what a lock buys: from the SELECT of a row to the end of its
transaction the request holds the lock and the row still is what it read
(`TransferHolds`, `AccountHolds`). So the values a commit writes are the committed ones
plus its own effect, and every step maps to one atomic movement or to a stutter. The
two assumptions are what the code is written for and what it lacks: the pinned gorm takes no
lock (`RowLocks` is FALSE for it, finding 1 is what happens then), and a status change
saves the balance it read. The theorem says that with `FOR UPDATE` in gorm v2's form the
movements would be atomic, and TLC's run `bank_lost_update` that without it they are not.

`TransfersFailForCause` shows that the insert hook's arithmetic never refuses a leg: both
balances of a row come from one read. Its assumptions name what else makes a transfer fail:
errors, lost commit answers, and `UpdateWritesBack`, with which every transfer fails (finding 2).

**`ExternalTransferProofs`**, of `ExternalSpec`

| theorem | property |
|---|---|
| `KeysInstructOnce` | `InstructedOncePerKey` |
| `RowsDoFollow` | `RowsFollowNorthWind` |
| `RefundsHaveCause` | `MovementsAreAccountedFor` |
| `ExternalClientsAreToldTheTruth` | `ExternalAnswersAreTrue` |
| `NoticesDoAgree` | `NoticesAgree` |

Polls save whole stale rows, so a row's status may go back (finding 3). What is
kept is that every copy, in the table or in a poll's hands, is `Honest`: it claims nothing
of NorthWind that is not so, and NorthWind's outcomes are final. `InitiationOK(r)` says
where an initiation can be given what NorthWind has made of its instruction, what is
reserved and what is recorded; in particular only the initiation whose row the key
has may instruct. `PollOK(p)` says that a poll works on a row whose initiation has
ended, which is why the two never refund the same reservation.

**`WorkersProofs`**, of `WorkersSpec`

| theorem | property | claimed of |
|---|---|---|
| `RequestsDoCount` | `RequestsAreCounted` | a prompt process |
| `GivingUpHasCause` | `GivesUpOnlyForCause` | every process |
| `SentMeansReceived` | `SentWasReceived` | every process |
| `SettledStaysSettled` | `SettledIsFinal` | a prompt process |
| `BalancesChangeAsAsked` | `AppliedAsAsked` | completed items: every process; the count: a prompt one |
| `FinishedStaysFinished` | `ItemsAreFinal` | a prompt process |
| `RequestsDoCarryTokens` | `RequestsCarryTokens` | every process |

`NoticeInv` has a part for every process, what a
row and a sender's copy say of the requests made (`NoticeRowOK`, `SenderOK`, `BatchOK`),
and a part for a prompt one: a copy still is its row and is the only one
(`CopiesAreRows`), so no attempt is lost (`Counted`). `QueueInv` is built the same way: what
a goroutine has done so far (`GoOK`, `ItemOK`), and in a prompt process that it is
alone and its reads are current (`GoAlone`, `GoReads`); `Explained` is the count of balance
changes against errors, crashes and retries spent, one more while the goroutine
that made it is between the change and its transaction. `ClientInv` is that a token which a
caller may send was good at some time since the call began, although three separate
critical sections check, replace and read it. The three parts share only `prompt` and `errors`.

**`BackOfficeProofs`** and **`CustomersProofs`**, of `BackOfficeSpec`

| theorem | property |
|---|---|
| `CallsAreInOrder` | - |
| `RemovedExternalsStayRemoved` | `ExternalStaysDeleted` |
| `EndedSessionsDoStayEnded` | `EndedSessionsStayEnded` |
| `CustomersAreCorrect` | - |
| `DeletedDoOwnNothing` | `DeletedOwnNothing` |
| `OneAccountPerTypeHolds` | `OneAccountPerType` |
| `PasswordsStayCurrent` | `PasswordsAreCurrent` |
| `LockoutHolds` | `Lockout` |

What is claimed here is about order: a request that was called after another had
ended. `CallsInv` relates `pc` and `before` for all requests, and is the frame of the rest;
the lemmas before it say what a statement may do at all (`Moves`, `Registers`, the
families of operations and the table each writes).

- `ExternalsInv`: a row is inserted by its registration alone, a verification begins
  with it and holds a copy, and none begins after the row's removal
  (`VerifiedBeforeRemoved`), so a removed row is brought back only by one that was there.
- `SessionsInv`: a token that is used was answered to someone (`TokensAreHeld`); and
  without errors, an exchanged token is revoked before it is answered for
  (`ExchangedOnce`), and a finished logout leaves no live token of those there were
  (`LoggedOut`).
- `CustomersInv`: `UsersInv` (a user is inserted once, a login holds a copy of a row),
  `AccountsInv` (copies are of accounts not deleted; deleted accounts have deleted owners),
  `DeletionsInv` (`Shut`: later requests do not find the customer; `Emptied`: how far a
  deletion is, and that nobody keeps a copy to restore what it has deleted) and `OpenInv`
  (`Only`: the account about to be inserted is the only one of its type, and stays so
  until a later request opens or moves one).
- `PasswordsInv`: a user's hash is the first one or that of a setter which no later setter has
  replaced (`HashIsKnown`), and what a login has compared with was the hash at some moment
  since it was called (`WasHash`).
- `LockoutInv`: counts, in rows and in logins' copies, are explained by wrong
  passwords (`GuessesInv`); while only wrong passwords come, one after another, each is
  counted or about to be (`MissesInv`); and a login that got past the lock came in
  time, since nothing joins its streak later (`InTime`).

The assumptions describe the pool of requests a behaviour draws from, not the code: loads
are finite; ids of inserted rows are new; a registration has a verification of its own;
accounts at the start belong to users at the start. PostgreSQL's keys and the Go code give the
program the same.

**`ReadersProofs`**, of `TransferHistorySpec` and `AccountReportsSpec`

| theorem | property | of |
|---|---|---|
| `WalksMissNone` | `WalksMissNothing` | `TransferHistorySpec` |
| `ReportsAreConsistent` | `ReportsAreOfOneMoment` | `AccountReportsSpec` |
| `BalancesFollowRows` | `HistoriesReconcile` | `AccountReportsSpec` |
| `OperationsStayCorrect` | `ClosedIsEmpty`, `AccountAnswersAreTrue`, `RecordsFollowMovements` | `AccountReportsSpec` |

*The walk.* `WalksMissNothing` speaks of a walk that has ended; `WalkInv` says what it relies on
from page to page: of the rows there were when it began, those not shown yet are still
ahead, beyond the offset of the next page (`RestIsAhead`). Insertions only add to the
number of rows before a row (`Place`), so no row moves towards the front; a short page
ends with the last place, so nothing is ahead of it. It also needs that a row's
`created_at` is its own (`DatesInv`) and never changes. A walk that asks for `pending`
transfers is excluded: rows that settle leave it, and the ones behind them move to the front.

*The reports.* `ReportsInv` is the conjunction of

- `TablesInv`: the invariant of the account service, types, and which query may follow which;
- `SerialInv`: where the load serves one movement at a time, what it has read is what
  there is, so its row will continue the last one;
- `GenuineInv`: where in addition the accounts started with a sample history, nothing is
  generated and no row was lost, the rows of an account keep its `Books`, or, while a
  movement is between its save and its row, those of the balance it had read. Books are kept
  when in the order of insertion dates do not fall, each balance is where the next row starts, the
  last one is the balance, no row is off by more than a cent, and the net is off by half a
  cent for each row at most. The last two have to be separate: a sum of cents would allow
  a cent for each row;
- `MomentsInv`: the present is one of the moments of a report, and so was the balance it
  goes on with;
- `AnswersInv`: each part of an answer holds at one of them. A later moment adds to the
  choice, so only the step that computes a part has to establish it. A statement is in
  it from its rows on, because its metrics come from a later query;
- `GeneratedInv`: what a generator has left to insert still reconciles.

The lemmas below them say what `SampleData` and `Statements` compute for rows of any
number: that the steps of a sample history are exact, whatever their unit, and that the
rows stored of them continue one another, none off by more than a cent, all of them together by less
than half a cent for each row, because each amount is rounded once (`SampleStepsAre`,
`OffStep`, `SampleHistoryIs`, `SampleBooks`); that a row a movement appends keeps the books
(`BooksAppended`); that the exchange sort of the generator returns as many rows, in the order of
their dates (`SettleRowIs`, `SortedByDateIs`); that balances recalculated after it form a chain
and no debit overdraws (`RecalculatedIs`, `GeneratedHistoryIs`); that every order a query may
return shows each row once, newest first, and has the same totals (`NewestRowsAre`,
`FetchedIs`, `StatementIs`).

**`DataProofs`**

| theorem | states |
|---|---|
| `DistancesAreLeast` | `levenshteinDistance(s, t) = EditDistance(s, t)` for all words s and t |

`EditDistance` is the definition: the least cost of pairing letters of s with letters of t in
order, where each pair of different letters and each letter left over costs one. The
matrix is shown to hold that minimum at every entry, row by row: a pairing of the first
i + 1 and j + 1 letters pairs the last two, or leaves one of them over (`EntriesAreDistances`).
The other lemmas of the module are about places in an order, and sums.

**Only model-checked.** Liveness and everything under fairness, which the provers cannot do:
`NoticesSettle`, `QueueDrains`, `PendingIsSettled`, `BankAnswers`. `TyposAreForgiven` and
`SampleCategoriesAgree` are statements about the program's constant tables of names: they have
no parameter, and TLC evaluates every case of them (the distance they use is
proved right above).

## Findings

1. **Row locks are not taken** (`bank_lost_update`). `account_repository.go:212` promises
   "Row-level locking prevents concurrent balance modifications"; the option used belongs
   to gorm v1. Two deposits that overlap lose one of them.
2. **Transfers cannot succeed with the pinned gorm** (`transfer_writeback`). `BalanceBefore` is
   read from the struct after `Update("balance", ...)` has stored the new balance in it; the
   insert hook then finds "balance calculation mismatch" and the transaction rolls back. The
   tests mock the repository and do not see it.
3. **A settled external transfer becomes processing again** (`external_final`).
   `transfer_test.go:323` says "Terminal states cannot transition"; `CheckTransferStatus` saves
   the row it read before another check settled it.
4. **Reserving funds adds them** (`external_reserve`). `northwind_transfer_service.go:216` says
   "Debit from account immediately (reserve funds)"; line 233 debits a negated amount.

5. **Statements swap their ends** (`statement_balances`). `statement_service_test.go:396` expects
   the opening balance of the oldest row; the repository returns the newest first and the
   service takes the first.

Other places where words and code differ, or code does not do what it is there for,
without a run (the models follow the code):

- `account_handler.go:302` says both accounts must belong to the user; the service compares
  the source only (`account_service.go:577`).
- `customer_handler.go:634` and `:679` pass `limit, offset` where `GetCustomerActivity` takes
  `offset, limit`: a default request (documented as limit 50, offset 0) asks for the
  entries after the fiftieth.
- `northwind_transfer_service.go:198` and `:322` and `external_account_service.go:108` and `:226`
  write audit rows with actions that `ValidateActivityType` rejects; the error is ignored
  and the rows are never written.
- `northwind_client.go:262` means to authenticate again after a 401, but the loop has
  ended by then.
- With the pinned gorm, ownership of an account is never transferred and the status of
  a queue item's transaction is never saved: hooks validate an empty struct.
- An e-mail of a deleted user cannot register again (the unique index includes deleted
  rows) and gets a system error.
- Scheduled external transfers are never executed.
- The list of transactions continues with a cursor as a lower bound of dates while rows
  are newest first: the next page is the first again. With a limit above 20, rows after the
  21st are hidden.
- Every row of a sample history must satisfy `after = before ± amount` (`transaction.go:351`), but
  this is checked before the columns are rounded: after three cuts of 30 % a balance of 355.00
  leaves a stored row of 52.19 from 173.95 to 121.77.
- Reports read rows `ORDER BY created_at` without a second key: rows of one instant may change
  places between two statements, and which of them ends a page is left to the database.
- A generated fee, or a "Direct Deposit" in the place of a purchase, has the category `FEES` or
  `INCOME` and a merchant's code: the category service would call it a purchase there.
- A name of two or three letters is not forgiven a missing one ("cv" is `OTHER`).
- "T-Mobile" may be transport or a bill from one call to the next; "Walmart Neighborhood
  Market" contains "hbo". The generator's codes 5941 and 5942 are not in the category
  service's table.
- A row of the last second of a period, but not at its first instant, is in no statement.

## Not modelled

Handlers' parsing and formatting, token signing, password hashing, metrics, logging,
migrations and configuration: pure I/O or library calls. The rate limiter is a library's
token bucket. The audit rows of operations other than transfers: one insert each, a failure
is only logged, nothing reads them to decide. Searches and listings of customers: queries.
Interest, averages of amounts and optional filters of reports, confidences of categories:
functions of what is modelled, and no property needs them. `OverrideCategory`, the
generators of salaries and bills, `GetByAccountID` with an offset: nothing calls them.
`GetUserAggregateMetrics` (`account_metrics_service.go:94`): no route leads to it; it only reads,
one query for each account of a user, and each account's part is what `ReadMetrics` computes, of a
moment of its own (one that cannot be read is left out), so nothing could be claimed of the whole. Fractions of a cent outside
sample histories: handlers accept any decimal (`dto/account.go:23`) and the columns
would round it; amounts of movements are whole cents here. Payloads
and statistics of notices; priorities in the queue (every fetch returns all that is due,
because the items are fewer than its limit). Token expiry: no behaviour lasts that long,
and the branch of logout for expired tokens has no effect.

## Plan

Every module planned is written. What is left is to be proved or to stay as it is:

| module | proved | left |
|---|---|---|
| `AccountStore`, `TransferService`, `AccountService` | every safety property | - |
| `Bank`, `AtomicLedger` | keys, answers, causes of failure, the refinement of `AtomicLedger` | liveness stays with TLC |
| `ExternalTransfer` | every property of the passing run | - |
| `RegulatorNotification`, `ProcessingQueue`, `NorthWindClient`, `Workers` | every safety property | liveness stays with TLC |
| `Calls` to `BackOffice` | every property | - |
| `Rows`, `TransferHistory` | `WalksMissNothing` | - |
| `SampleData`, `Statements`, `AccountReports` | every safety property | - |
| `Levenshtein`, `Categories` | the distance, for all words | the tables stay with TLC, which covers every case |
