------------------------------ MODULE SampleData ------------------------------
(***************************************************************************)
(* The two generators of transactions that never happened: the sample      *)
(* history a new user's accounts are created with, and the history the     *)
(* development endpoint adds to an account.  Both are pure: what they draw *)
(* at random is a parameter.                                               *)
(*                                                                         *)
(* Merchants, descriptions, categories and references are left out, and    *)
(* with them the ranges amounts are drawn from.  Money is counted in       *)
(* cents, which is what the tables keep; a sample history is computed in   *)
(* fractions of a cent first.                                              *)
(***************************************************************************)
EXTENDS AccountStore, Rows, Functions

(* A row of the transactions table as its readers see it.  at is created_at. *)
HistoryRow(a, type, amount, before, at, status) ==
  [account |-> a, type |-> type, amount |-> amount,
   before |-> before, after |-> before + Delta(type, amount),
   at |-> at, status |-> status]

(* The balances after each of n changes, where a change may depend on the *)
(* balance it finds.                                                      *)
Balances(start, n, change(_, _)) ==
  LET after[i \in 0..n] ==
        IF i = 0 THEN start ELSE after[i - 1] + change(i, after[i - 1])
  IN after

-----------------------------------------------------------------------------
(* Sample histories.  Draws are whole cents, one created_at for each row.  *)

SampleDraw == [type : {"credit", "debit"}, amount : Nat]

(* The rows are stamped one after the other; a stamp may be that of the row before. *)
Sample ==
  {s \in [deposit : Nat, draws : Seq(SampleDraw), target : Nat, at : Seq(Int)] :
     /\ Len(s.at) = Len(s.draws) + 2
     /\ \A k, l \in DOMAIN s.at : k < l => s.at[k] <= s.at[l]}

(* A column of type decimal(15,2) keeps value/unit cents rounded, halves up. *)
Cents(value, unit) == (2 * value + unit) \div (2 * unit)

(* A step of a history: what it adds or takes and the balance it leaves, *)
(* both exact, as multiples of 1/unit cents.                             *)
Step(type, amount, after, unit) ==
  [type |-> type, amount |-> amount, after |-> after, unit |-> unit]

(* A debit of more than the account has takes 30 % of it instead. *)
Drawn(last, d) ==
  LET asked == d.amount * last.unit IN
  IF d.type = "debit" /\ last.after < asked
    THEN Step("debit", 3 * last.after, 7 * last.after, 10 * last.unit)
    ELSE Step(d.type, asked, last.after + Delta(d.type, asked), last.unit)

(* The step that reaches the target, if one is needed. *)
Reaching(last, target) ==
  LET goal == target * last.unit IN
  CASE goal > last.after -> <<Step("credit", goal - last.after, goal, last.unit)>>
    [] goal < last.after -> <<Step("debit", last.after - goal, goal, last.unit)>>
    [] OTHER             -> <<>>

(* A deposit, the draws, and a last step that reaches the target. *)
SampleSteps(s) ==
  LET n == Len(s.draws)
      drawn[i \in 0..n] == IF i = 0 THEN Step("credit", s.deposit, s.deposit, 1)
                           ELSE Drawn(drawn[i - 1], s.draws[i])
      last == Reaching(drawn[n], s.target)
  IN [k \in 1..(1 + n + Len(last)) |-> IF k <= 1 + n THEN drawn[k - 1] ELSE last[1]]

(* Each amount and each balance is rounded by itself when it is stored. *)
StoredRow(a, step, before, at) ==
  [account |-> a, type |-> step.type, amount |-> Cents(step.amount, step.unit),
   before |-> before, after |-> Cents(step.after, step.unit),
   at |-> at, status |-> "completed"]

SampleHistory(a, s) ==
  LET steps == SampleSteps(s)
      left(k) == IF k = 0 THEN 0 ELSE Cents(steps[k].after, steps[k].unit)
  IN [k \in DOMAIN steps |-> StoredRow(a, steps[k], left(k - 1), s.at[k])]

(* A row of no amount fails the batch. *)
SampleAccepted(s) == \A k \in DOMAIN SampleSteps(s) : SampleSteps(s)[k].amount > 0

(* The account is created with the balance the steps lead to. *)
SampleBalance(s) ==
  LET steps == SampleSteps(s) IN Cents(steps[Len(steps)].after, steps[Len(steps)].unit)

-----------------------------------------------------------------------------
(* Generated histories.  A draw d has a type, an amount, the income that   *)
(* may replace it, and a time.                                             *)

GeneratorDraw == [type : {"credit", "debit"}, amount : Nat, income : Nat, at : Int]

(* A debit that leaves less than the minimum becomes an income. *)
AdjustedDraw(balance, d, minimum) ==
  IF d.type = "debit" /\ balance - d.amount < minimum
    THEN [d EXCEPT !.type = "credit", !.amount = d.income]
    ELSE d

GeneratedBatch(a, start, draws, minimum) ==
  LET drawn(i, balance) == AdjustedDraw(balance, draws[i], minimum)
      change(i, balance) == Delta(drawn(i, balance).type, drawn(i, balance).amount)
      after == Balances(start, Len(draws), change)
  IN [k \in 1..Len(draws) |->
        LET d == drawn(k, after[k - 1])
        IN HistoryRow(a, d.type, d.amount, after[k - 1], d.at, "completed")]

(* A row and a later one that is older change places. *)
Exchange(rows, i, j) ==
  IF i < j /\ rows[i].at > rows[j].at
    THEN [rows EXCEPT ![i] = rows[j], ![j] = rows[i]] ELSE rows

(* The row at i is exchanged with every later one in turn. *)
SettleRow(rows, i) ==
  LET upto[j \in 0..Len(rows)] == IF j = 0 THEN rows ELSE Exchange(upto[j - 1], i, j)
  IN upto[Len(rows)]

(* An exchange sort: rows of one instant may change their order. *)
SortedByDate(rows) ==
  LET settled[i \in 0..Len(rows)] == IF i = 0 THEN rows ELSE SettleRow(settled[i - 1], i)
  IN settled[Len(rows)]

(* Mutant: the balances of the order of generation are kept. *)
UncheckedBalances(rows, start, minimum) == rows

(* Sorting has changed the order: balances are computed again, and a debit *)
(* that now leaves less than the minimum becomes a refund.                 *)
RecalculatedBalances(rows, start, minimum) ==
  LET type(i, balance) ==
        IF balance - rows[i].amount < minimum THEN "credit" ELSE rows[i].type
      change(i, balance) == Delta(type(i, balance), rows[i].amount)
      after == Balances(start, Len(rows), change)
  IN [k \in DOMAIN rows |->
        HistoryRow(rows[k].account, type(k, after[k - 1]), rows[k].amount, after[k - 1],
                   rows[k].at, rows[k].status)]

GeneratedHistory(a, start, draws, minimum) ==
  RecalculatedBalances(SortedByDate(GeneratedBatch(a, start, draws, minimum)),
                       start, minimum)
=============================================================================
