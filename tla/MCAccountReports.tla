--------------------------- MODULE MCAccountReports ---------------------------
(* Instances of AccountReports for TLC. *)
EXTENDS AccountReports, Categories

CONSTANTS a1, a2, u1, u2, u3

MCOwner == a1 :> u1 @@ a2 :> u1

MCOpening == [a \in Accounts |-> [balance |-> 2, status |-> "active"]]

Draw(type, amount) == [type |-> type, amount |-> amount]

(* Three cuts bring fractions of a cent, or a history stays below its target *)
(* or ends at it; rows of one instant, and of two months.                    *)
Overdrawn ==
  [deposit |-> 200000, target |-> 10000, at |-> <<0, 1, 2, 3, 4, 5, 5, 6>>,
   draws |-> <<Draw("debit", 54800), Draw("debit", 54800), Draw("debit", 54900),
               Draw("debit", 54900), Draw("debit", 54900), Draw("debit", 54900)>>]
AtTarget ==
  [deposit |-> 200000, target |-> 225000, at |-> <<-1, 0, 1, 1, 1>>,
   draws |-> <<Draw("credit", 10000), Draw("debit", 5000), Draw("credit", 20000)>>]
Below ==
  [deposit |-> 300000, target |-> 500099, at |-> <<2, 3, 4, 5, 6>>,
   draws |-> <<Draw("credit", 5000), Draw("credit", 5000), Draw("credit", 5000)>>]

MCNewUsers ==
  {[checking |-> a1, savings |-> a2, first |-> s, second |-> Below] : s \in {Overdrawn, AtTarget}}

Job(op, a, user) == [op |-> op, account |-> a, amount |-> 2, user |-> user]

StatusJobs ==
  {[op |-> s, account |-> a1, amount |-> 0, user |-> u] : s \in AccountStatuses, u \in Users}

OpsLoad ==
  [calls |-> 3, serial |-> FALSE, reports |-> {}, sampled |-> FALSE,
   jobs |-> {j \in AccountJob : j.account = a1}]

Movements == {Job("credit", a2, u1), Job("debit", a1, u1)}

ReportsLoad(calls, sampled, reports) ==
  [calls |-> calls, serial |-> TRUE, reports |-> reports, sampled |-> sampled, jobs |-> Movements]

CategoryLoad ==
  [calls |-> 0, serial |-> TRUE, reports |-> {}, sampled |-> FALSE, jobs |-> {}]

Summary(u, target) == [kind |-> "summary", user |-> u, target |-> target]
Metrics(u, from, to) ==
  [kind |-> "metrics", user |-> u, account |-> a1, from |-> from, to |-> to]
Statement(u, p) == [kind |-> "statement", user |-> u, account |-> a1, period |-> p]
List(u, limit) ==
  [kind |-> "list", user |-> u, account |-> a1, limit |-> limit, cursor |-> <<>>]
One(u) == [kind |-> "transaction", user |-> u, account |-> a1]
Generate(u, draws) == [kind |-> "generate", user |-> u, account |-> a1, draws |-> draws]

Made(type, amount, at) == [type |-> type, amount |-> amount, income |-> 3, at |-> at]

Summaries ==
  {Summary(u1, u1), Summary(u1, u2), Summary(u2, u1), Summary(u2, u3), Summary(u3, u3)}
AllMetrics == {Metrics(u1, NoDate, NoDate), Metrics(u2, 0, 5), Metrics(u1, 1, 1),
               Metrics(u3, 0, NoDate), Metrics(u1, NoDate, MaxNow)}
Statements1 ==
  {Statement(u1, 0), Statement(u2, -1), Statement(u1, 1), Statement(u3, 0)}
Lists == {List(u1, 1), List(u1, 4), List(u1, 0), List(u2, 1), One(u1), One(u2)}
(* Sorting exchanges two draws of one instant, and makes one a refund. *)
Generations ==
  {Generate(u1, <<Made("credit", 1, 2), Made("debit", 1, 2), Made("debit", 1, -2)>>),
   Generate(u2, <<Made("credit", 1, -1)>>), Statement(u1, 0), List(u1, 2)}

MCLoads ==
  {OpsLoad, ReportsLoad(2, FALSE, Summaries), ReportsLoad(2, TRUE, AllMetrics),
   ReportsLoad(2, TRUE, Statements1), ReportsLoad(1, TRUE, Lists),
   ReportsLoad(1, FALSE, Generations), CategoryLoad}

MCStatementLoads == {ReportsLoad(2, TRUE, {Statement(u1, 0)})}

MCSymmetry == Permutations(AccountRequests)

(* The category service is asked in a behaviour of its own. *)
MCInit == AccountReportsInit /\ CategoryInit

MCNext ==
  \/ AccountReportsNext /\ UNCHANGED categoryVars
  \/ load = CategoryLoad /\ CategoryNext /\ UNCHANGED arVars

MCSpec == MCInit /\ [][MCNext]_<<arVars, categoryVars>>
=============================================================================
