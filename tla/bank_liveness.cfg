\* Two transfers and a withdrawal or closure, were the row locks taken; no errors
\* but deadlocks.
SPECIFICATION BankSpec
CONSTANTS
  a1 = a1
  a2 = a2
  u1 = u1
  Accounts = {a1, a2}
  Users = {u1}
  Owner <- MCOwner
  Opening <- MCOpening
  Amounts = {2}
  Requests = {t1, t2, d1}
  TransferRequests = {t1, t2}
  AccountRequests = {d1}
  AccountOps = {"debit", "closed"}
  Admins = {}
  NoRequest = none
  Keys = {k1, k2}
  RowLocks = TRUE
  UpdateWritesBack = FALSE
  Faults = FALSE
  AmbiguousCommit = FALSE
PROPERTIES
  FailsOnlyForCause
  PendingIsSettled
  BankAnswers
