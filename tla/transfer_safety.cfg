\* Three requests, one or two keys, any direction, database errors, crashes, and
\* commits that take effect and return an error; or two of them and a walk through the
\* history of transfers.
SPECIFICATION TransferHistorySpec
CONSTANTS
  a1 = a1
  a2 = a2
  u1 = u1
  Accounts = {a1, a2}
  Users = {u1}
  Owner <- MCOwner
  Opening <- MCOpening
  Amounts = {2}
  Requests = {r1, r2, r3}
  TransferRequests = {r1, r2, r3}
  NoRequest = none
  Keys = {k1, k2}
  RowLocks = FALSE
  UpdateWritesBack = FALSE
  Faults = TRUE
  AmbiguousCommit = TRUE
  PageLimits = {1}
  Filters = {"none", "completed", "failed"}
  MaxActive = 3
SYMMETRY MCSymmetry
INVARIANTS
  TransferTypeOK
  OneMovementPerKey
  MovementsHaveRows
  BothLegsRecorded
  WalksMissNothing
PROPERTIES
  OutcomesAreFinal
