------------------------------ MODULE Statements ------------------------------
(***************************************************************************)
(* What the reports compute from the rows they read: periods, the rows of  *)
(* a period, totals, the opening and closing balance of a statement, and a *)
(* page of the list of transactions.  Queries return rows newest first,    *)
(* and rows of equal created_at in any order.                              *)
(*                                                                         *)
(* Interest and averages of amounts are functions of what is here and are  *)
(* left out.                                                               *)
(***************************************************************************)
EXTENDS SampleData, FiniteSetsExt

CONSTANTS
  PeriodLength,  \* ticks of a period: a month or a quarter
  SecondLength,  \* ticks of a second
  MetricsLength, \* ticks of the period of metrics without dates: 14 days
  DefaultLimit,  \* the rows of a page when no limit is given
  MaxLimit       \* the most rows a client may ask for

ASSUME StatementsAssumption ==
  /\ {PeriodLength, SecondLength, MetricsLength, DefaultLimit, MaxLimit}
       \subseteq Nat \ {0}
  /\ SecondLength < PeriodLength
  /\ DefaultLimit <= MaxLimit

-----------------------------------------------------------------------------
(* Periods.  The last second of a period ends it: a row of the fraction of *)
(* a second after that belongs to no period.                               *)

PeriodStart(p) == p * PeriodLength
PeriodEnd(p) == PeriodStart(p + 1) - SecondLength

-----------------------------------------------------------------------------
(* Rows.  A query finds positions of the table. *)

RowsOf(journal, a) == {i \in DOMAIN journal : journal[i].account = a}

(* GetByDateRange: both ends belong to the range. *)
RowsBetween(journal, a, from, to) ==
  {i \in RowsOf(journal, a) : from <= journal[i].at /\ journal[i].at <= to}

(* ORDER BY created_at DESC LIMIT n: the orders the query may return, where *)
(* n is at most the number of the rows.                                      *)
NewestRows(journal, rows, n) ==
  LET newest(S) == {i \in S : \A j \in S : journal[j].at <= journal[i].at}
      found[k \in 0..n] ==
        IF k = 0 THEN {<<>>}
        ELSE UNION {{Append(f, i) : i \in newest(rows \ Range(f))} : f \in found[k - 1]}
  IN found[n]

(* The rows at these positions. *)
Fetch(journal, positions) == [k \in DOMAIN positions |-> journal[positions[k]]]

-----------------------------------------------------------------------------
(* Totals. *)

Completed(rows) == {k \in DOMAIN rows : rows[k].status = "completed"}
Counted(rows, type) == {k \in Completed(rows) : rows[k].type = type}

SumOfAmounts(rows, S) == SumFunctionOnSet([k \in DOMAIN rows |-> rows[k].amount], S)
SumOfBalances(rows, S) == SumFunctionOnSet([k \in DOMAIN rows |-> rows[k].after], S)

(* calculateSummary: completed rows only. *)
Totals(rows) ==
  LET deposits == SumOfAmounts(rows, Counted(rows, "credit"))
      withdrawals == SumOfAmounts(rows, Counted(rows, "debit"))
  IN [deposits |-> deposits, withdrawals |-> withdrawals,
      net |-> deposits - withdrawals, count |-> Cardinality(Completed(rows))]

Largest(rows, type) == Max({0} \cup {rows[k].amount : k \in Counted(rows, type)})

(* Metrics add the largest movements, and the average of the balances after *)
(* every row, completed or not: a sum and a count, or the current balance.  *)
calculateAccountMetrics(rows, balance) ==
  [totals |-> Totals(rows),
   largestDeposit |-> Largest(rows, "credit"), largestWithdrawal |-> Largest(rows, "debit"),
   average |-> IF rows = <<>> THEN <<balance, 1>>
               ELSE <<SumOfBalances(rows, DOMAIN rows), Len(rows)>>]

(* calculateBalances: the first row read opens the period and the last one *)
(* closes it; without rows both are the current balance.                   *)
PeriodBalances(rows, current) ==
  IF rows = <<>> THEN [opening |-> current, closing |-> current]
  ELSE [opening |-> Head(rows).before, closing |-> rows[Len(rows)].after]

-----------------------------------------------------------------------------
(* Lists. *)

(* The query reads one row more than the default limit, whatever limit the *)
(* client gave; a cursor is the time and row the last page ended with, and *)
(* bounds the time from below.                                             *)
ListQuery(journal, a, cursor) ==
  LET found == {i \in RowsOf(journal, a) : cursor = <<>> \/ cursor[1].at <= journal[i].at}
      n == Cardinality(found)
  IN NewestRows(journal, found, IF n <= DefaultLimit THEN n ELSE DefaultLimit + 1)

(* ListTransactions: the cursor's row is left out when it comes first. *)
Page(rows, cursor, limit) ==
  LET fresh == IF rows # <<>> /\ cursor = <<Head(rows)>> THEN Tail(rows) ELSE rows
      hasMore == Len(fresh) > limit
      shown == Slice(fresh, 0, limit)
  IN [rows |-> shown, hasMore |-> hasMore,
      nextCursor |-> IF hasMore THEN <<shown[Len(shown)]>> ELSE <<>>]
=============================================================================
