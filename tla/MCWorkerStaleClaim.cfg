CONSTANTS
  m1 = m1  p1 = p1  p2 = p2
  NoWorker = NoWorker  NoEntry = NoEntry
  TicksPerSecond = 1
  MaxAttempts = 2
  ClaimTimeout = 1
  MaxDelay = 2
  Workers = {w1}
  Entries = {e1}
  Messages = {m1}
  Malformed = {}
  Paths = {p1}
  Body <- OneBody
  Rows <- OneRow
  Seed <- SeedZero
  RetryAfters = {1}
  MailMode = "live"
  MaxClock = 2
  MaxLate = 0
  StartsHealthy = FALSE
SPECIFICATION LiveSpec
PROPERTIES
  StaleClaimEnds
