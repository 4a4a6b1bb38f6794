\* Two initiations of one key and two polls, with errors, crashes, ambiguous commits and
\* lost answers.
SPECIFICATION ExternalSpec
CONSTANTS
  a1 = a1
  u1 = u1
  u2 = u2
  Accounts = {a1}
  Users = {u1, u2}
  Owner <- MCOwner
  Opening <- MCOpening
  Amounts = {2}
  Initiations = {i1, i2}
  Polls = {p1, p2}
  Requests <- MCRequests
  NoRequest = none
  Keys = {k1}
  LostAnswers = TRUE
  RowLocks = FALSE
  UpdateWritesBack = TRUE
  Faults = TRUE
  AmbiguousCommit = TRUE
SYMMETRY MCSymmetry
INVARIANTS
  InstructedOncePerKey
  RowsFollowNorthWind
  MovementsAreAccountedFor
  ExternalAnswersAreTrue
  NoticesAgree
