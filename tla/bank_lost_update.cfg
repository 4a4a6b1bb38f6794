\* Two deposits, no row locks.
SPECIFICATION BankSpec
CONSTANTS
  a1 = a1
  a2 = a2
  u1 = u1
  Accounts = {a1, a2}
  Users = {u1}
  Owner <- MCOwner
  Opening <- MCOpening
  Amounts = {2}
  Requests = {d1, d2}
  TransferRequests = {}
  AccountRequests = {d1, d2}
  AccountOps = {"credit"}
  Admins = {}
  NoRequest = none
  Keys = {}
  RowLocks = FALSE
  UpdateWritesBack = FALSE
  Faults = FALSE
  AmbiguousCommit = FALSE
INVARIANTS
  BalancesAddUp
