\* Up to three requests of users, customers and external accounts at a time, or two and an
\* error or a crash.
SPECIFICATION BackOfficeSpec
CONSTANTS
  u1 = u1
  u2 = u2
  u3 = u3
  u4 = u4
  u5 = u5
  e1 = e1
  e2 = e2
  e3 = e3
  p0 = p0
  p1 = p1
  p2 = p2
  p3 = p3
  a1 = a1
  a2 = a2
  a3 = a3
  a5 = a5
  a6 = a6
  a7 = a7
  a8 = a8
  a9 = a9
  a10 = a10
  a11 = a11
  a12 = a12
  x1 = x1
  x2 = x2
  x3 = x3
  x4 = x4
  s1 = s1
  Pool <- MCPool
  Loads <- MCLoads
  MaxErrors = 1
  Clients = {u1, u2, u3, u4, u5}
  FirstRow <- MCFirstRow
  Emails = {e1, e2, e3}
  Passwords = {p0, p1, p2, p3}
  MaxFailedLoginAttempts = 3
  OldSessions = {s1, staff}
  SessionOwner <- MCSessionOwner
  Staff = staff
  Accounts = {a1, a2, a3, a5, a6, a7, a8, a9, a10, a11, a12}
  FirstAccount <- MCFirstAccount
  MaxBalance = 2
  Externals = {x1, x2, x3, x4}
  FirstExternal <- MCFirstExternal
CHECK_DEADLOCK FALSE
INVARIANTS
  Lockout
  PasswordsAreCurrent
  EndedSessionsStayEnded
  DeletedOwnNothing
  OneAccountPerType
  ExternalStaysDeleted
