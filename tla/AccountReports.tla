---------------------------- MODULE AccountReports ----------------------------
(***************************************************************************)
(* The account service with the reports that read its tables: the summary  *)
(* of a user's accounts, the metrics of an account, statements, the list   *)
(* of transactions and one transaction of it; and the development endpoint *)
(* that fills an account with generated rows.  A report is a chain of      *)
(* queries without a database transaction around them; deposits,           *)
(* withdrawals and the clock go on between any two.                        *)
(*                                                                         *)
(* One report runs at a time, since reports do not write what others read. *)
(* A load says what an instance runs: how many account requests with which *)
(* jobs, whether they may overlap, and which reports.                      *)
(***************************************************************************)
EXTENDS AccountService, Statements

CONSTANTS
  Registered,   \* the users that exist; others are deleted, with a live token
  NewUsers,     \* the sample accounts a user may start with: [checking, savings,
                \* first, second], two accounts and the samples of their histories
  MinBalance,   \* what generated debits leave
  Loads,        \* records [calls, jobs, serial, reports, sampled]
  FirstNow,     \* the time at which a behaviour starts
  MaxNow        \* bound on the clock

(* What clients ask for. *)
ReportJob ==
  [kind : {"summary"}, user : Users, target : Users]
    \cup [kind : {"metrics"}, user : Users, account : Accounts, from : Int, to : Int]
    \cup [kind : {"statement"}, user : Users, account : Accounts, period : Int]
    \cup [kind : {"list"}, user : Users, account : Accounts, limit : Int, cursor : {<<>>}]
    \cup [kind : {"transaction"}, user : Users, account : Accounts]
    \cup [kind : {"generate"}, user : Users, account : Accounts,
          draws : Seq(GeneratorDraw) \ {<<>>}]

ASSUME AccountReportsAssumption ==
  /\ Registered \subseteq Users
  /\ {MinBalance, FirstNow, MaxNow} \subseteq Nat
  /\ IsFiniteSet(Accounts)
  /\ \A u \in NewUsers : /\ {u.checking, u.savings} \subseteq Accounts
                          /\ u.checking # u.savings
                          /\ {u.first, u.second} \subseteq Sample
                          /\ \A s \in {u.first, u.second} : \A k \in DOMAIN s.at : s.at[k] <= FirstNow
  /\ \A l \in Loads : /\ {l.serial, l.sampled} \subseteq BOOLEAN
                       /\ l.reports \subseteq ReportJob

VARIABLES
  load,     \* the load of this behaviour
  now,      \* the clock, in ticks
  journal,  \* the transactions table in the order of insertion
  rPc,      \* the query the report runs next
  rJob,     \* what the report was asked for
  rBalance, \* the balance of the account it read
  rAnswer,  \* what it has computed
  moments   \* history: the states of the tables since the report began

reportVars == <<rPc, rJob, rBalance, rAnswer>>
arVars == <<aVars, load, now, journal, reportVars, moments>>

NoDate == -1
ROpen == {"requestor", "target", "accounts", "account", "count", "rows", "row", "insert"}
REnded == {"idle", "done", "refused", "failed"}

(* The tables at a moment, and whether every movement has its row. *)
Moment ==
  [balances |-> [a \in Accounts |-> accounts[a].balance], journal |-> journal,
   settled |-> /\ \A r \in posted : \E e \in ledger : e.request = r
               /\ \A j \in load.reports : j.kind # "generate"]

(* CreateAccountsForNewUser: two accounts, each with a history and the *)
(* balance it leads to.                                                *)
Sampled == \E u \in NewUsers :
  /\ SampleAccepted(u.first) /\ SampleAccepted(u.second)
  /\ journal = SampleHistory(u.checking, u.first) \o SampleHistory(u.savings, u.second)
  /\ accounts = [a \in Accounts |->
                   [balance |-> CASE a = u.checking -> SampleBalance(u.first)
                                  [] a = u.savings  -> SampleBalance(u.second)
                                  [] OTHER          -> 0,
                    status |-> "active"]]

AccountReportsInit ==
  /\ load \in Loads
  /\ now = FirstNow
  /\ IF load.sampled THEN Sampled ELSE journal = <<>> /\ accounts = Opening
  /\ rowLock = [a \in Accounts |-> NoRequest]
  /\ ledger = {}
  /\ posted = {}
  /\ AccountInit
  /\ rPc = "idle" /\ rJob = <<>> /\ rBalance = 0 /\ rAnswer = <<>>
  /\ moments = {}

RGoto(from, to) == rPc = from /\ rPc' = to

-----------------------------------------------------------------------------
(* A report is called; its dates are checked before any query. *)

MetricsTo(j) == IF j.to = NoDate THEN now ELSE j.to
MetricsFrom(j) == IF j.from = NoDate THEN MetricsTo(j) - MetricsLength ELSE j.from

ParametersAllowed(j) ==
  CASE j.kind = "statement" -> PeriodEnd(j.period) <= now
    [] j.kind = "metrics"   -> MetricsFrom(j) < MetricsTo(j) /\ MetricsTo(j) <= now
    [] OTHER                -> TRUE

FirstQuery(j) ==
  IF j.kind \in {"summary", "metrics", "statement"} THEN "requestor" ELSE "account"

(* Dates that were not given are filled in, and a large limit is cut, when *)
(* the call arrives.                                                       *)
Normalized(j) ==
  CASE j.kind = "metrics" -> [j EXCEPT !.from = MetricsFrom(j), !.to = MetricsTo(j)]
    [] j.kind = "list"    -> [j EXCEPT !.limit = IF @ > MaxLimit THEN MaxLimit ELSE @]
    [] OTHER              -> j

(* A client that was told of more rows may ask again with the cursor. *)
NextPages ==
  IF rPc = "done" /\ rJob.kind = "list" /\ rAnswer.hasMore
    THEN {[rJob EXCEPT !.cursor = rAnswer.nextCursor]} ELSE {}

(* One report is enough, since it does not depend on earlier ones: only a   *)
(* second one that finds the rows the first has generated is of interest.   *)
NextReports ==
  CASE rPc = "idle"  -> load.reports
    [] rPc \in REnded \ {"idle"} /\ rJob.kind = "generate" ->
         {j \in load.reports : j.kind # "generate"}
    [] OTHER         -> {}

CallReport ==
  /\ \E j \in NextReports \cup NextPages :
       /\ rPc' = IF ParametersAllowed(j) THEN FirstQuery(j) ELSE "refused"
       /\ rJob' = IF ParametersAllowed(j) THEN Normalized(j) ELSE j
  /\ rBalance' = 0 /\ rAnswer' = <<>>
  /\ UNCHANGED journal

-----------------------------------------------------------------------------
(* The queries of a report. *)

(* A statement runs the queries of the metrics once it has its own rows; *)
(* whatever goes wrong there, it is answered without metrics.            *)
TakesMetrics == rJob.kind = "statement" /\ rAnswer # <<>>

Refused == IF TakesMetrics THEN "done" ELSE "refused"

ReadRequestor ==
  /\ RGoto("requestor",
           IF rJob.user \notin Registered THEN Refused
           ELSE IF rJob.kind # "summary" THEN "account"
           ELSE IF rJob.target = rJob.user THEN "accounts"
           ELSE IF rJob.user \in Admins THEN "target" ELSE "refused")
  /\ UNCHANGED <<journal, rJob, rBalance, rAnswer>>

ReadTarget ==
  /\ RGoto("target", IF rJob.target \in Registered THEN "accounts" ELSE "refused")
  /\ UNCHANGED <<journal, rJob, rBalance, rAnswer>>

AccountsOf(u) == {a \in Accounts : Owner[a] = u}

SummaryOf(balances) ==
  [balances |-> balances, total |-> SumFunctionOnSet(balances, DOMAIN balances)]

(* Mutant: one query per account, a row that is read later. *)
ReadAccountsTwice ==
  /\ rPc = "accounts"
  /\ LET first == CHOOSE a \in Accounts : TRUE
         read == [a \in AccountsOf(rJob.target) |->
                    IF a = first /\ rAnswer # <<>> THEN rAnswer.balances[a]
                    ELSE accounts[a].balance]
     IN rAnswer' = SummaryOf(read)
  /\ rPc' = IF rAnswer = <<>> THEN "accounts" ELSE "done"
  /\ UNCHANGED <<journal, rJob, rBalance>>

(* One query returns every account of the user. *)
ReadAccounts ==
  /\ RGoto("accounts", "done")
  /\ rAnswer' = SummaryOf([a \in AccountsOf(rJob.target) |-> accounts[a].balance])
  /\ UNCHANGED <<journal, rJob, rBalance>>

(* Administrators may see the metrics and statements of every account, and *)
(* the transactions of their own.                                          *)
MayRead(j) ==
  \/ j.user = Owner[j.account]
  \/ j.kind \in {"metrics", "statement"} /\ j.user \in Admins

PageAllowed(j) == j.kind = "list" => j.limit >= 1

SecondQuery(j) ==
  CASE j.kind \in {"metrics", "statement"} -> "rows"
    [] j.kind = "list"                     -> "count"
    [] j.kind = "transaction"              -> "row"
    [] j.kind = "generate"                 -> "insert"

ReadAccount ==
  LET balance == accounts[rJob.account].balance IN
  /\ RGoto("account", IF MayRead(rJob) /\ PageAllowed(rJob) THEN SecondQuery(rJob) ELSE Refused)
  /\ rBalance' = balance
  /\ rAnswer' = IF rJob.kind = "generate"
                  THEN GeneratedHistory(rJob.account, balance, rJob.draws, MinBalance)
                  ELSE rAnswer
  /\ UNCHANGED <<journal, rJob>>

(* The orders in which the rows of a range of time may come. *)
RangeOf(from, to) ==
  LET found == RowsBetween(journal, rJob.account, from, to)
  IN NewestRows(journal, found, Cardinality(found))

StatementRows == RangeOf(PeriodStart(rJob.period), PeriodEnd(rJob.period))

ReadMetrics ==
  /\ RGoto("rows", "done")
  /\ rJob.kind = "metrics"
  /\ \E order \in RangeOf(rJob.from, rJob.to) :
       rAnswer' = calculateAccountMetrics(Fetch(journal, order), rBalance)

ReadStatement ==
  /\ RGoto("rows", "requestor")
  /\ rJob.kind = "statement" /\ ~TakesMetrics
  /\ \E order \in StatementRows :
       LET rows == Fetch(journal, order) IN
       rAnswer' = [rows |-> rows, balances |-> PeriodBalances(rows, rBalance),
                   totals |-> Totals(rows), metrics |-> <<>>]

ReadStatementMetrics ==
  /\ RGoto("rows", "done")
  /\ TakesMetrics
  /\ \E order \in StatementRows :
       rAnswer' = [rAnswer EXCEPT !.metrics =
                    <<calculateAccountMetrics(Fetch(journal, order), rBalance)>>]

ReadList ==
  /\ RGoto("rows", "done")
  /\ rJob.kind = "list"
  /\ \E order \in ListQuery(journal, rJob.account, rJob.cursor) :
       rAnswer' = Page(Fetch(journal, order), rJob.cursor, rJob.limit)

ReadRows ==
  /\ ReadMetrics \/ ReadStatement \/ ReadStatementMetrics \/ ReadList
  /\ UNCHANGED <<journal, rJob, rBalance>>

(* The total is counted by a query of its own; nothing is computed with it. *)
CountRows == RGoto("count", "rows") /\ UNCHANGED <<journal, rJob, rBalance, rAnswer>>

(* The row is found by its id and must be of the account. *)
ReadRow ==
  /\ \/ RGoto("row", "refused") /\ UNCHANGED rAnswer
     \/ \E i \in DOMAIN journal :
          /\ RGoto("row", IF journal[i].account = rJob.account THEN "done" ELSE "refused")
          /\ rAnswer' = journal[i]
  /\ UNCHANGED <<journal, rJob, rBalance>>

(* GenerateTestData inserts its rows one by one and goes on after an error; *)
(* the balance of the account stays as it is.                               *)
InsertGenerated ==
  /\ rPc = "insert"
  /\ rPc' = IF Len(rAnswer) = 1 THEN "done" ELSE "insert"
  /\ rAnswer' = Tail(rAnswer)
  /\ \/ journal' = Append(journal, Head(rAnswer))
     \/ Faults /\ UNCHANGED journal
  /\ UNCHANGED <<rJob, rBalance>>

(* Any other query may fail. *)
ReportError ==
  /\ Faults
  /\ rPc \in ROpen \ {"insert"}
  /\ rPc' = IF TakesMetrics THEN "done" ELSE "failed"
  /\ UNCHANGED <<journal, rJob, rBalance, rAnswer>>

ReportStep ==
  \/ ReadRequestor \/ ReadTarget \/ ReadAccounts \/ ReadAccount
  \/ CountRows \/ ReadRows \/ ReadRow \/ InsertGenerated

-----------------------------------------------------------------------------
(* The account service beside it. *)

(* The load decides who is called, with what, and at the same time as whom. *)
CallsAllowed ==
  /\ \A r \in AccountRequests : aJob'[r] \in load.jobs \cup {NoRequest}
  /\ Cardinality({r \in AccountRequests : aPc'[r] # "idle"}) <= load.calls
  /\ load.serial => \A r, q \in AccountRequests : aPc'[r] \in AOpen /\ aPc'[q] \in AOpen => r = q

(* created_at is the time of the insert. *)
RowInserted(e) == HistoryRow(e.account, e.type, e.amount, e.before, now, "completed")

RowRecorded ==
  IF ledger' = ledger \/ load.reports = {} THEN UNCHANGED journal
  ELSE \E e \in ledger' \ ledger : journal' = Append(journal, RowInserted(e))

AccountActivity ==
  /\ AccountNext
  /\ CallsAllowed
  /\ RowRecorded
  /\ UNCHANGED <<load, now, reportVars>>

Crash ==
  /\ AccountCrash \/ (Faults /\ rPc \in ROpen /\ DropConnections /\ DropAccountCalls
                        /\ UNCHANGED <<accounts, ledger, posted, aJob, aSeen, aRow>>)
  /\ rPc' = IF rPc \in ROpen THEN "failed" ELSE rPc
  /\ UNCHANGED <<load, now, journal, rJob, rBalance, rAnswer>>

Tick ==
  /\ load.reports # {}
  /\ now < MaxNow
  /\ now' = now + 1
  /\ UNCHANGED <<aVars, load, journal, reportVars>>

Report == (CallReport \/ ReportStep \/ ReportError) /\ UNCHANGED <<aVars, load, now>>

(* What the tables held at some moment of the report. *)
Witness ==
  moments' = CASE rPc' \in ROpen /\ rPc \in REnded -> {Moment'}
               [] rPc \in ROpen                    -> moments \cup {Moment'}
               [] OTHER                            -> moments

Quiet ==
  /\ \A r \in AccountRequests : aPc[r] \notin AOpen
  /\ Cardinality({r \in AccountRequests : aPc[r] # "idle"}) = load.calls
  /\ rPc \in REnded
  /\ UNCHANGED arVars

AccountReportsNext ==
  \/ (AccountActivity \/ Crash \/ Tick \/ Report) /\ Witness
  \/ Quiet

AccountReportsSpec == AccountReportsInit /\ [][AccountReportsNext]_arVars

-----------------------------------------------------------------------------
(* Properties. *)

Answered(kind) == rPc = "done" /\ rJob.kind = kind

(* A summary shows balances the accounts had at one moment, all of them,    *)
(* and their sum: never one account before and another after a movement.    *)
SummaryIsOfOneMoment == Answered("summary") =>
  \E m \in moments :
    /\ \A a \in AccountsOf(rJob.target) : rAnswer.balances[a] = m.balances[a]
    /\ rAnswer.total = SumFunctionOnSet(m.balances, AccountsOf(rJob.target))

(* What totals must be, given the positions of a table they are about. *)
TotalsAt(table, own) ==
  LET deposits == SumOfAmounts(table, own \cap Counted(table, "credit"))
      withdrawals == SumOfAmounts(table, own \cap Counted(table, "debit"))
  IN [deposits |-> deposits, withdrawals |-> withdrawals,
      net |-> deposits - withdrawals, count |-> Cardinality(own \cap Completed(table))]

(* Whether metrics are what they must be at a moment.  The balance that is  *)
(* taken for the average when there are no rows was read before them.       *)
MetricsHoldAt(m, metrics, a, from, to) ==
  LET own == RowsBetween(m.journal, a, from, to)
      most(type) == Max({0} \cup {m.journal[i].amount : i \in own \cap Counted(m.journal, type)})
  IN /\ metrics.totals = TotalsAt(m.journal, own)
     /\ metrics.largestDeposit = most("credit")
     /\ metrics.largestWithdrawal = most("debit")
     /\ IF own = {} THEN \E n \in moments : metrics.average = <<n.balances[a], 1>>
        ELSE metrics.average = <<SumOfBalances(m.journal, own), Cardinality(own)>>

(* Metrics, and those of a statement when it has some, count the completed  *)
(* rows of their period as of one moment.                                   *)
MetricsAreOfOneMoment ==
  /\ Answered("metrics") =>
       \E m \in moments : MetricsHoldAt(m, rAnswer, rJob.account, rJob.from, rJob.to)
  /\ Answered("statement") =>
       \A i \in DOMAIN rAnswer.metrics : \E m \in moments :
         MetricsHoldAt(m, rAnswer.metrics[i], rJob.account,
                       PeriodStart(rJob.period), PeriodEnd(rJob.period))

(* The first page of a list, with a limit up to the default one, shows the  *)
(* newest rows of the account, and says whether it has more.                *)
FirstPageIsNewest ==
  Answered("list") /\ rJob.cursor = <<>> /\ rJob.limit <= DefaultLimit =>
    \E m \in moments :
      LET own == RowsOf(m.journal, rJob.account)
          shown == {i \in own : \E k \in DOMAIN rAnswer.rows : rAnswer.rows[k] = m.journal[i]}
      IN /\ Len(rAnswer.rows) <= rJob.limit
         /\ rAnswer.hasMore <=> Cardinality(own) > rJob.limit
         /\ Cardinality(own) <= rJob.limit => shown = own
         /\ \A i \in shown, j \in own \ shown : m.journal[i].at >= m.journal[j].at

(* A report reads several tables, or one of them more than once, while      *)
(* money moves; what it shows was true at one moment of its run.            *)
ReportsAreOfOneMoment ==
  SummaryIsOfOneMoment /\ MetricsAreOfOneMoment /\ FirstPageIsNewest

(* The rows at these positions, each once, newest first. *)
ShowsNewestFirst(rows, table, own) ==
  /\ Len(rows) = Cardinality(own)
  /\ \A i \in own : \E k \in DOMAIN rows : rows[k] = table[i]
  /\ \A k \in DOMAIN rows : \E i \in own : rows[k] = table[i]
  /\ \A k, l \in DOMAIN rows : k < l => rows[k].at >= rows[l].at

(* Between two positions of the set there is none. *)
Adjacent(own, i, j) == i < j /\ \A k \in own : k <= i \/ j <= k

(* In the order of insertion no row is older than the last one, each starts *)
(* from the balance the last one left, and leaves what its amount makes of  *)
(* it, up to a cent.                                                        *)
ContinueOneAnother(table, own) ==
  /\ \A i \in own :
       table[i].after - table[i].before - Delta(table[i].type, table[i].amount) \in -1..1
  /\ \A i, j \in own : Adjacent(own, i, j) =>
       table[i].at <= table[j].at /\ table[i].after = table[j].before

(* The rows lead to the balance: the last one leaves it, and their totals   *)
(* are off by half a cent for each row at most.                             *)
LeadTo(balance, table, own) ==
  LET net == TotalsAt(table, own).net IN
  /\ \A i \in own : (\A j \in own : j <= i) => table[i].after = balance
  /\ 2 * (net - balance) \in (-Cardinality(own))..Cardinality(own)

(* A statement shows the rows of its period, each once, and the totals are  *)
(* theirs.  If the account started with a sample history, movements come    *)
(* one after the other, none is without its row and none was made up, then  *)
(* the balances of its rows continue one another in the order of insertion, *)
(* which is that of the statement but for rows of one instant, and a whole  *)
(* history leads to the balance of the account.  Rounding is all that may   *)
(* be between: the fractions of a cent of a sample history are stored       *)
(* column by column.                                                        *)
StatementReconciles == Answered("statement") =>
  \E m \in moments :
    LET a == rJob.account
        own == RowsOf(m.journal, a)
        inPeriod == RowsBetween(m.journal, a, PeriodStart(rJob.period), PeriodEnd(rJob.period))
    IN /\ rAnswer.totals = TotalsAt(m.journal, inPeriod)
       /\ ShowsNewestFirst(rAnswer.rows, m.journal, inPeriod)
       /\ m.settled /\ load.serial /\ load.sampled =>
            /\ ContinueOneAnother(m.journal, inPeriod)
            /\ inPeriod = own => LeadTo(m.balances[a], m.journal, own)

(* Rows in the order of time, each continuing the balance of the last. *)
Chains(rows) ==
  /\ \A i \in DOMAIN rows : BalanceIsCorrect(rows[i])
  /\ \A i \in 1..(Len(rows) - 1) : rows[i].after = rows[i + 1].before

(* What is left of a generated history to insert continues in the order of  *)
(* time, starts from the balance that was read, and no debit in it leaves   *)
(* less than the minimum.                                                   *)
GeneratedReconciles == rPc = "insert" =>
  /\ Chains(rAnswer)
  /\ \A i \in 1..(Len(rAnswer) - 1) : rAnswer[i].at <= rAnswer[i + 1].at
  /\ \A i \in DOMAIN rAnswer : rAnswer[i].type = "debit" => rAnswer[i].after >= MinBalance
  /\ rAnswer # <<>> /\ Len(rAnswer) = Len(rJob.draws) => Head(rAnswer).before = rBalance

(* Every balance a history shows follows from the row before it. *)
HistoriesReconcile == StatementReconciles /\ GeneratedReconciles

(* What the tests of the statement service say: the opening balance is that *)
(* before the oldest row of the period, the closing balance that after the  *)
(* newest.                                                                  *)
StatementBalances == Answered("statement") /\ rAnswer.rows # <<>> =>
  /\ rAnswer.balances.opening = rAnswer.rows[Len(rAnswer.rows)].before
  /\ rAnswer.balances.closing = Head(rAnswer.rows).after
=============================================================================
