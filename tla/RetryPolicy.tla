----------------------------- MODULE RetryPolicy -----------------------------
(***************************************************************************)
(* How long a worker keeps a delivery it is going to abandon, and how far  *)
(* away it schedules the next attempt (internal/distribution/worker.go).   *)
(* All durations are in ticks.                                             *)
(***************************************************************************)
EXTENDS Receipt

CONSTANT
  MaxDelay  \* the longest wait, 300 seconds in the program

ASSUME MaxDelayAssumption ==
  MaxDelay \in Nat /\ MaxDelay >= TicksPerSecond

Larger(a, b) == IF a < b THEN b ELSE a

Smaller(a, b) == IF a < b THEN a ELSE b

boundedDelay(value) == Smaller(Larger(value, TicksPerSecond), MaxDelay)

(***************************************************************************)
(* The delay before the next attempt: what the provider asked for or an    *)
(* exponential back-off, whichever is longer, plus a jitter of at most ten *)
(* seconds that depends only on the recipient (seed).                      *)
(***************************************************************************)
exponential(attemptCount) == <<1, 2, 4, 8, 16>>[attemptCount] * TicksPerSecond

jitter(base, seed) ==
  LET range == Smaller(Larger(base \div 4, TicksPerSecond), 10 * TicksPerSecond)
      slots == (range \div TicksPerSecond) + 1
  IN  (seed % slots) * TicksPerSecond

retryDelay(r, retryAfter, seed) ==
  LET base == boundedDelay(Larger(retryAfter, exponential(r.attemptCount)))
  IN  boundedDelay(base + jitter(base, seed))

\* How long an active receipt of another worker is left alone.
activeDelay(r, now) ==
  LET anchor == IF r.status = "SEND_STARTED" THEN r.sendStartedAt ELSE r.claimedAt
  IN  IF anchor = NoTime
      THEN TicksPerSecond
      ELSE boundedDelay(ClaimTimeout - (now - anchor))
==============================================================================
