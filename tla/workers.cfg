\* Two notices or two queue items and a prompt process, or one of either and a slow one,
\* with an error or a crash;
\* or two calls of the client of NorthWind, or one and a crash.
SPECIFICATION WorkersSpec
CONSTANTS
  n1 = n1
  n2 = n2
  i1 = i1
  i2 = i2
  i3 = i3
  c1 = c1
  c2 = c2
  Notices = {n1, n2}
  Sweepers = {s1}
  Worker = worker
  MaxAttempts = 2
  BatchSize = 1
  Items = {i1, i2, i3}
  OperationOf <- MCOperationOf
  Duplicates = {i3}
  Goroutines = {g1, g2, g3}
  MaxWorkers = 2
  MaxRetries = 2
  MaxFailures = 2
  HalfOpenMaxSucc = 1
  PartnerCalls = {c1, c2}
  RetryAttempts = 1
  MaxErrors = 1
  Loads <- MCLoads
CHECK_DEADLOCK FALSE
INVARIANTS
  RequestsAreCounted
  GivesUpOnlyForCause
  SentWasReceived
  AppliedAsAsked
  RequestsCarryTokens
PROPERTIES
  SettledIsFinal
  NoticesSettle
  ItemsAreFinal
  QueueDrains
