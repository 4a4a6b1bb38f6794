\* One transfer, with the object mapper as it is: an update writes its value back.
SPECIFICATION TransferServiceSpec
CONSTANTS
  a1 = a1
  a2 = a2
  u1 = u1
  Accounts = {a1, a2}
  Users = {u1}
  Owner <- MCOwner
  Opening <- MCOpening
  Amounts = {2}
  Requests = {r1}
  TransferRequests = {r1}
  NoRequest = none
  Keys = {k1}
  RowLocks = FALSE
  UpdateWritesBack = TRUE
  Faults = FALSE
  AmbiguousCommit = FALSE
PROPERTIES
  FailsOnlyForCause
