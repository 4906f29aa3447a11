CONSTANTS
  w1 = w1  w2 = w2  e1 = e1  e2 = e2  e3 = e3  e4 = e4  m1 = m1  m2 = m2  m3 = m3  p1 = p1  p2 = p2
  NoWorker = NoWorker  NoEntry = NoEntry
  TicksPerSecond = 2
  MaxAttempts = 1
  ClaimTimeout = 2
  MaxDelay = 4
  Workers <- TwoWorkers
  Entries = {e1}
  Messages = {m1}
  Malformed = {}
  Paths = {p1}
  Body <- OneBody
  Rows <- OneRow
  Seed <- SeedZero
  RetryAfters = {4}
  MailMode = "live"
  MaxClock = 4
  MaxLate = 0
SPECIFICATION Spec
SYMMETRY WorkerSymmetry
CHECK_DEADLOCK FALSE
INVARIANT
  TransientBlobFailureAbandons
