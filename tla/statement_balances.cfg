\* Statements of a month with sample rows and one movement after the other.
SPECIFICATION MCSpec
CONSTANTS
  a1 = a1
  a2 = a2
  u1 = u1
  u2 = u2
  u3 = u3
  Accounts = {a1, a2}
  Users = {u1, u2, u3}
  Registered = {u1, u2}
  Owner <- MCOwner
  Opening <- MCOpening
  NewUsers <- MCNewUsers
  Loads <- MCStatementLoads
  Amounts = {2}
  Requests = {r1, r2, r3}
  AccountRequests = {r1, r2, r3}
  AccountOps = {"credit", "debit", "active", "inactive", "closed"}
  Admins = {u2}
  NoRequest = none
  RowLocks = FALSE
  UpdateWritesBack = TRUE
  Faults = TRUE
  AmbiguousCommit = TRUE
  PeriodLength = 9
  SecondLength = 1
  MetricsLength = 2
  DefaultLimit = 2
  MaxLimit = 3
  MinBalance = 1
  FirstNow = 8
  MaxNow = 9
SYMMETRY MCSymmetry
INVARIANTS
  StatementBalances
