CONSTANTS
  w1 = w1  w2 = w2  e1 = e1  e2 = e2  e3 = e3  e4 = e4  m1 = m1  m2 = m2  m3 = m3  p1 = p1  p2 = p2
  NoWorker = NoWorker  NoEntry = NoEntry
  TicksPerSecond = 1
  MaxAttempts = 1
  ClaimTimeout = 1
  MaxDelay = 2
  Workers = {w1}
  Entries = {e1, e2, e3, e4}
  Messages = {m1, m2, m3}
  Malformed = {m3}
  Paths = {p1, p2}
  Body <- MixedBody
  Rows <- MixedRows
  Seed <- SeedZero
  RetryAfters = {1}
  MailMode = "stub"
  MaxClock = 1
  MaxLate = 0
SPECIFICATION Spec
SYMMETRY DuplicateSymmetry
CHECK_DEADLOCK FALSE
INVARIANTS
  CompletedDelivered
