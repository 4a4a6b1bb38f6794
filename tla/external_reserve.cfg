\* One transfer, without errors.
SPECIFICATION ExternalSpec
CONSTANTS
  a1 = a1
  u1 = u1
  u2 = u2
  Accounts = {a1}
  Users = {u1}
  Owner <- MCOwner
  Opening <- MCOpening
  Amounts = {2}
  Initiations = {i1}
  Polls = {p1}
  Requests <- MCRequests
  NoRequest = none
  Keys = {k1}
  LostAnswers = FALSE
  RowLocks = FALSE
  UpdateWritesBack = TRUE
  Faults = FALSE
  AmbiguousCommit = FALSE
INVARIANTS
  ReservationsTakeMoney
