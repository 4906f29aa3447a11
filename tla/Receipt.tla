------------------------------- MODULE Receipt -------------------------------
(***************************************************************************)
(* The per-recipient effect journal (internal/distribution/receipt.go).    *)
(*                                                                         *)
(* A receipt is a value; every transition of the Go type is a pair of      *)
(* operators, the condition under which the method returns no error        *)
(* (XAllowed) and the receipt it then returns (X).  Identity fields that   *)
(* never change, provider evidence and reason texts are left out: no       *)
(* decision of the program reads them.  Times are ticks of one clock, a    *)
(* second is TicksPerSecond of them, and a stored time has lost its        *)
(* fraction of a second.                                                   *)
(*                                                                         *)
(* A definition named ...Slip is a plausible mistake in the one after it;  *)
(* no specification uses it.                                               *)
(***************************************************************************)
EXTENDS Integers

CONSTANTS
  TicksPerSecond,  \* resolution of the clock above the second a stored time keeps
  MaxAttempts,     \* WorkerOptions.MaxAttempts
  ClaimTimeout     \* WorkerOptions.ClaimTimeout, in ticks

ASSUME TicksPerSecondAssumption == TicksPerSecond \in Nat \ {0}
\* NewWorker refuses any other policy.
ASSUME MaxAttemptsAssumption == MaxAttempts \in 1..5
ASSUME ClaimTimeoutAssumption == ClaimTimeout \in Nat \ {0}

ReceiptStatus == {"CLAIMED", "SEND_STARTED", "RETRYABLE", "ACCEPTED",
                  "SIMULATED", "FAILED", "UNKNOWN"}

\* The statuses on which a batch goes on to its next row.
Delivered == {"ACCEPTED", "SIMULATED"}

Terminal == {"ACCEPTED", "SIMULATED", "FAILED", "UNKNOWN"}

\* The nil of an optional timestamp.
NoTime == -1

Time == Nat \cup {NoTime}

ReceiptOf(messages) ==
  [status         : ReceiptStatus,
   attemptCount   : 1..MaxAttempts,
   stateVersion   : Nat \ {0},
   claimedAt      : Time,
   sendStartedAt  : Time,
   nextAttemptAt  : Time,
   queueMessageID : messages]

formatTime(t) == (t \div TicksPerSecond) * TicksPerSecond

terminal(r) == r.status \in Terminal

ClaimReceipt(message, now) ==
  [status         |-> "CLAIMED",
   attemptCount   |-> 1,
   stateVersion   |-> 1,
   claimedAt      |-> formatTime(now),
   sendStartedAt  |-> NoTime,
   nextAttemptAt  |-> NoTime,
   queueMessageID |-> message]

StartSendAllowed(r) == r.status = "CLAIMED"

StartSend(r, now) ==
  [r EXCEPT !.status        = "SEND_STARTED",
            !.stateVersion  = @ + 1,
            !.sendStartedAt = formatTime(now),
            !.nextAttemptAt = NoTime]

(***************************************************************************)
(* The transitions out of SEND_STARTED.                                    *)
(***************************************************************************)
finishAllowed(r) == r.status = "SEND_STARTED"

\* The version is not advanced.
finishSlip(r, status) ==
  [r EXCEPT !.status = status, !.nextAttemptAt = NoTime]

finish(r, status) ==
  [r EXCEPT !.status        = status,
            !.stateVersion  = @ + 1,
            !.nextAttemptAt = NoTime]

Accept(r) == finish(r, "ACCEPTED")

Simulate(r) == finish(r, "SIMULATED")

Fail(r) == finish(r, "FAILED")

\* An ambiguous answer is recorded as a failure.
MarkUnknownSlip(r) == finish(r, "FAILED")

MarkUnknown(r) == finish(r, "UNKNOWN")

RetryAllowed(r, now, retryAt) == r.status = "SEND_STARTED" /\ retryAt >= now

Retry(r, retryAt) ==
  [r EXCEPT !.status        = "RETRYABLE",
            !.stateVersion  = @ + 1,
            !.nextAttemptAt = formatTime(retryAt)]

(***************************************************************************)
(* The transitions out of RETRYABLE.                                       *)
(***************************************************************************)
\* The due time is not looked at.
ReclaimAllowedSlip(r, now) ==
  r.status = "RETRYABLE" /\ r.attemptCount < MaxAttempts

ReclaimAllowed(r, now) ==
  /\ r.status = "RETRYABLE"
  /\ r.attemptCount < MaxAttempts
  /\ r.nextAttemptAt # NoTime
  /\ now >= r.nextAttemptAt

\* The attempt is not counted.
ReclaimSlip(r, now) ==
  [r EXCEPT !.status        = "CLAIMED",
            !.stateVersion  = @ + 1,
            !.claimedAt     = formatTime(now),
            !.sendStartedAt = NoTime,
            !.nextAttemptAt = NoTime]

Reclaim(r, now) ==
  [r EXCEPT !.status        = "CLAIMED",
            !.stateVersion  = @ + 1,
            !.attemptCount  = @ + 1,
            !.claimedAt     = formatTime(now),
            !.sendStartedAt = NoTime,
            !.nextAttemptAt = NoTime]

Exhaust(r) ==
  [r EXCEPT !.status        = "FAILED",
            !.stateVersion  = @ + 1,
            !.nextAttemptAt = NoTime]

(***************************************************************************)
(* RecoverStale takes over what another worker left behind: a claim is     *)
(* claimed again, a send whose outcome nobody recorded becomes UNKNOWN.    *)
(***************************************************************************)
\* The attempt budget is not looked at.
RecoverStaleAllowedSlip(r, now) ==
  \/ r.status = "CLAIMED" /\ now - r.claimedAt >= ClaimTimeout
  \/ r.status = "SEND_STARTED" /\ now - r.sendStartedAt >= ClaimTimeout

\* The attempt budget is asked of a stale send too.
RecoverStaleBudgetSlip(r, now) ==
  /\ r.attemptCount < MaxAttempts
  /\ \/ r.status = "CLAIMED" /\ now - r.claimedAt >= ClaimTimeout
     \/ r.status = "SEND_STARTED" /\ now - r.sendStartedAt >= ClaimTimeout

RecoverStaleAllowed(r, now) ==
  \/ /\ r.status = "CLAIMED"
     /\ r.claimedAt # NoTime
     /\ r.attemptCount < MaxAttempts
     /\ now - r.claimedAt >= ClaimTimeout
  \/ /\ r.status = "SEND_STARTED"
     /\ r.sendStartedAt # NoTime
     /\ now - r.sendStartedAt >= ClaimTimeout

\* A stale send is claimed again like a stale claim.
RecoverStaleSlip(r, now) ==
  [r EXCEPT !.status       = "CLAIMED",
            !.attemptCount = IF @ < MaxAttempts THEN @ + 1 ELSE @,
            !.stateVersion = @ + 1,
            !.claimedAt    = formatTime(now)]

RecoverStale(r, now) ==
  IF r.status = "CLAIMED"
  THEN [r EXCEPT !.attemptCount = @ + 1,
                 !.stateVersion = @ + 1,
                 !.claimedAt    = formatTime(now)]
  ELSE MarkUnknown(r)
==============================================================================
