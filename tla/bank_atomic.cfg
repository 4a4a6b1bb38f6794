\* Two transfers and a deposit or withdrawal, were the row locks taken.
SPECIFICATION BankSpec
CONSTANTS
  a1 = a1
  a2 = a2
  u1 = u1
  Accounts = {a1, a2}
  Users = {u1}
  Owner <- MCOwner
  Opening <- MCOpening
  Amounts = {2}
  Requests = {t1, t2, d1}
  TransferRequests = {t1, t2}
  AccountRequests = {d1}
  AccountOps = {"credit", "debit"}
  Admins = {}
  NoRequest = none
  Keys = {k1, k2}
  RowLocks = TRUE
  UpdateWritesBack = FALSE
  Faults = TRUE
  AmbiguousCommit = FALSE
INVARIANTS
  RowsMatchMovements
  AnswersAreTrue
  AuditMatchesMovements
PROPERTIES
  ImplementsAtomicLedger
