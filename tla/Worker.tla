-------------------------------- MODULE Worker --------------------------------
(***************************************************************************)
(* Workers that take batch messages from a Peek-Lock queue and send one    *)
(* notification per row, each guarded by a receipt in a store with         *)
(* conditional writes (internal/distribution/worker.go, runtime.go,        *)
(* azure_storage.go, mail.go).                                             *)
(*                                                                         *)
(* A step of a worker is one call to something outside it (the queue, the  *)
(* blobs, the receipt store, the mail provider) together with the local    *)
(* computation up to the next such call.  Workers crash, locks expire,     *)
(* calls fail, writes land late, and the clock moves between any two steps.*)
(*                                                                         *)
(* A definition named ...Slip is a plausible mistake in the one after it;  *)
(* no specification uses it.                                               *)
(***************************************************************************)
EXTENDS RetryPolicy, Sequences, FiniteSets

CONSTANTS
  Workers,      \* worker processes
  Entries,      \* queue entries; a publisher replay makes two with one message
  Messages,     \* queue message identities (operation and batch index)
  Malformed,    \* messages that ParseQueueMessage or the manifest check refuses
  Paths,        \* receipt paths: one per operation and recipient
  Body,         \* Body[e]: the message an entry carries
  Rows,         \* Rows[m]: the recipients of the message's immutable batch
  Seed,         \* Seed[p]: the jitter seed taken from the recipient's identity
  RetryAfters,  \* Retry-After values the provider may answer with, in ticks
  MailMode,     \* "live", or "stub" and "sandbox", which simulate
  NoWorker, NoEntry,
  MaxClock,     \* bound: the last tick of the clock
  MaxLate       \* bound: writes in flight whose caller has given up

ASSUME WorkerAssumption ==
  /\ Malformed \subseteq Messages
  /\ Body \in [Entries -> Messages]
  /\ Rows \in [Messages -> Seq(Paths)]
  /\ Seed \in [Paths -> Nat]
  /\ RetryAfters \subseteq Nat
  /\ MailMode \in {"stub", "sandbox", "live"}
  /\ NoWorker \notin Workers
  /\ NoEntry \notin Entries
  /\ MaxClock \in Nat
  /\ MaxLate \in Nat

VARIABLES
  queue,     \* queue[e]: "queued", "completed" or "deadlettered"
  holder,    \* holder[e]: the worker the broker's lock belongs to
  receipts,  \* receipts[p]: the stored receipt, or NoReceipt
  etags,     \* etags[p]: the number of writes the store has applied to p
  late,      \* writes whose caller has given up and that may still be applied
  worker,    \* the local state of each worker
  clock,
  requests,  \* requests[p]: mail requests that reached the provider
  effects,   \* effects[p]: those the provider accepted, or may have accepted
  audits     \* audits[p]: terminal audit events emitted

vars == <<queue, holder, receipts, etags, late, worker, clock, requests, effects, audits>>

Receipts == ReceiptOf(Messages)

NoReceipt == [status |-> "ABSENT"]

Write == [path : Paths, etag : Nat, receipt : Receipts]

Steps == {"create", "exhaust", "reclaim", "recover", "start", "commit"}

Reasons == {"MESSAGE_INVALID", "REFERENCED_BLOB_INVALID", "BLOB_UNAVAILABLE",
            "RECEIPT_UNAVAILABLE", "RECEIPT_CONFLICT", "RECEIPT_COMMIT_UNKNOWN",
            "TERMINAL_NOTIFICATION_FAILURE", "RETRY_BUDGET_EXHAUSTED",
            "RETRY_NOT_DUE", "ACTIVE_RECEIPT", "STALE_SEND_OUTCOME",
            "PROVIDER_RETRYABLE", "PROVIDER_REJECTED", "PROVIDER_OUTCOME_UNKNOWN",
            "PROVIDER_PROTOCOL_UNKNOWN"}

\* What made a blob read fail: the service (ErrDependency) or the bytes (ErrContract).
Faults == {"dependency", "contract"}

(***************************************************************************)
(* The local state of a worker: where it is, the delivery and row it works *)
(* on, the time it read when it began the row, the receipt it last saw     *)
(* with its ETag, the write it is making and why, and its verdict.         *)
(***************************************************************************)
WorkerState ==
  [pc          : {"idle", "blobs", "row", "get", "reget", "upload", "reread",
                  "send", "settle"},
   entry       : Entries \cup {NoEntry},
   row         : Nat,
   now         : Nat,
   stored      : Receipts \cup {NoReceipt},
   etag        : Nat,
   next        : Receipts \cup {NoReceipt},
   step        : Steps \cup {"none"},
   delay       : Nat,
   disposition : {"none", "COMPLETE", "ABANDON", "DEAD_LETTER"},
   reason      : Reasons \cup {"none"},
   fault       : Faults \cup {"none"},
   wakeAt      : Nat]

Idle ==
  [pc |-> "idle", entry |-> NoEntry, row |-> 0, now |-> 0, stored |-> NoReceipt,
   etag |-> 0, next |-> NoReceipt, step |-> "none", delay |-> 0,
   disposition |-> "none", reason |-> "none", fault |-> "none", wakeAt |-> 0]

Init ==
  /\ queue = [e \in Entries |-> "queued"]
  /\ holder = [e \in Entries |-> NoWorker]
  /\ receipts = [p \in Paths |-> NoReceipt]
  /\ etags = [p \in Paths |-> 0]
  /\ late = {}
  /\ worker = [w \in Workers |-> Idle]
  /\ clock = 0
  /\ requests = [p \in Paths |-> 0]
  /\ effects = [p \in Paths |-> 0]
  /\ audits = [p \in Paths |-> 0]

Message(w) == Body[worker[w].entry]

Path(w) == Rows[Message(w)][worker[w].row]

------------------------------------------------------------------------------
(***************************************************************************)
(* Building blocks of the steps: what a worker does next.                  *)
(***************************************************************************)
Become(w, state) == worker' = [worker EXCEPT ![w] = state]

\* A row is skipped.
AtRowSlip(w, n) ==
  [Idle EXCEPT !.pc = "row", !.entry = worker[w].entry, !.row = n + 1]

\* Go on with row n of the delivery.
AtRow(w, n) == [Idle EXCEPT !.pc = "row", !.entry = worker[w].entry, !.row = n]

\* The wait is measured from the clock reading of the row.
VerdictSlip(w, disposition, reason, wait) ==
  [Idle EXCEPT !.pc = "settle",
               !.entry = worker[w].entry,
               !.disposition = disposition,
               !.reason = reason,
               !.wakeAt = IF disposition = "ABANDON"
                          THEN worker[w].now + boundedDelay(wait)
                          ELSE 0]

(***************************************************************************)
(* Process returns.  A delivery to be abandoned is first held, with its    *)
(* lock renewed, for the wait the verdict asks for.                        *)
(***************************************************************************)
Verdict(w, disposition, reason, wait) ==
  [Idle EXCEPT !.pc = "settle",
               !.entry = worker[w].entry,
               !.disposition = disposition,
               !.reason = reason,
               !.wakeAt = IF disposition = "ABANDON"
                          THEN clock + boundedDelay(wait)
                          ELSE 0]

Complete(w) == Verdict(w, "COMPLETE", "none", 0)

Abandon(w, reason, wait) == Verdict(w, "ABANDON", reason, wait)

DeadLetter(w, reason) == Verdict(w, "DEAD_LETTER", reason, 0)

\* Begin a conditional write of next over the receipt r seen with this ETag.
Put(w, step, r, etag, next) ==
  [worker[w] EXCEPT !.pc = "upload", !.step = step, !.stored = r,
                    !.etag = etag, !.next = next]

\* The provider is called on the strength of the claim.
PutStartSlip(w, r, etag) ==
  [worker[w] EXCEPT !.pc = "send", !.stored = StartSend(r, worker[w].now),
                    !.etag = etag, !.next = NoReceipt, !.step = "none"]

\* Commit the ambiguity boundary before the provider is called.
PutStart(w, r, etag) ==
  IF StartSendAllowed(r)
  THEN Put(w, "start", r, etag, StartSend(r, worker[w].now))
  ELSE Abandon(w, "RECEIPT_CONFLICT", TicksPerSecond)

ReplaceReceipt(p, receipt) ==
  /\ receipts' = [receipts EXCEPT ![p] = receipt]
  /\ etags' = [etags EXCEPT ![p] = @ + 1]

------------------------------------------------------------------------------
(***************************************************************************)
(* Receiving a delivery and reading what it refers to.  A blob reference   *)
(* names an exact version, so these reads see no other actor.              *)
(***************************************************************************)
Receive(w, e) ==
  /\ worker[w].pc = "idle"
  /\ queue[e] = "queued"
  /\ holder[e] = NoWorker
  /\ holder' = [holder EXCEPT ![e] = w]
  /\ Become(w, [Idle EXCEPT !.pc = "blobs", !.entry = e])
  /\ UNCHANGED <<queue, receipts, etags, late, clock, requests, effects, audits>>

\* What may fail: a download of ReadSmall or Verify, the body that it reads and
\* compares, the scan of validateBatch, the last Open.
BlobChecks ==
  {"manifest", "manifestBody", "verify", "verifyBody", "validateBatch", "open"}

(***************************************************************************)
(* The failures Process turns into a redelivery.  A body that breaks off   *)
(* is a contract error to ReadSmall and Verify, whatever broke it.         *)
(***************************************************************************)
TransientCheck(check, fault) ==
  \/ check \in {"manifest", "verify"} /\ fault = "dependency"
  \/ check = "open"

BlobVerdict(w, check, fault) ==
  IF TransientCheck(check, fault)
  THEN [Abandon(w, "BLOB_UNAVAILABLE", TicksPerSecond) EXCEPT !.fault = fault]
  ELSE [DeadLetter(w, "REFERENCED_BLOB_INVALID") EXCEPT !.fault = fault]

ReadBlobs(w) ==
  /\ worker[w].pc = "blobs"
  /\ \/ /\ Message(w) \in Malformed
        /\ Become(w, DeadLetter(w, "MESSAGE_INVALID"))
     \/ /\ Message(w) \notin Malformed
        /\ \E check \in BlobChecks, fault \in Faults :
             Become(w, BlobVerdict(w, check, fault))
     \/ /\ Message(w) \notin Malformed
        /\ Become(w, AtRow(w, 1))
  /\ UNCHANGED <<queue, holder, receipts, etags, late, clock, requests, effects, audits>>

(***************************************************************************)
(* The next row of the batch: the clock is read here, once, and that time  *)
(* is used for everything the row does.  The stream may also break.        *)
(***************************************************************************)
ScanRow(w) ==
  /\ worker[w].pc = "row"
  /\ \/ /\ worker[w].row > Len(Rows[Message(w)])
        /\ Become(w, Complete(w))
     \/ /\ worker[w].row <= Len(Rows[Message(w)])
        /\ Become(w, [worker[w] EXCEPT !.pc = "get", !.now = clock])
     \/ \E fault \in Faults :
          Become(w, [DeadLetter(w, "REFERENCED_BLOB_INVALID") EXCEPT !.fault = fault])
  /\ UNCHANGED <<queue, holder, receipts, etags, late, clock, requests, effects, audits>>

------------------------------------------------------------------------------
(***************************************************************************)
(* processRecipient up to its first write: what to do with the receipt     *)
(* the store returned.                                                     *)
(***************************************************************************)
receiptMatches(r, message) == r.queueMessageID = message

Examine(w, r, etag) ==
  LET now == worker[w].now IN
  \/ /\ ~receiptMatches(r, Message(w))
     /\ Become(w, DeadLetter(w, "RECEIPT_CONFLICT"))
  \/ /\ receiptMatches(r, Message(w))
     /\ \/ /\ r.status \in Delivered
           /\ Become(w, AtRow(w, worker[w].row + 1))
        \/ /\ r.status \in {"FAILED", "UNKNOWN"}
           /\ Become(w, DeadLetter(w, "TERMINAL_NOTIFICATION_FAILURE"))
        \/ /\ r.status = "RETRYABLE"
           /\ r.attemptCount >= MaxAttempts
           /\ Become(w, Put(w, "exhaust", r, etag, Exhaust(r)))
        \/ /\ r.status = "RETRYABLE"
           /\ r.attemptCount < MaxAttempts
           /\ now < r.nextAttemptAt
           /\ Become(w, [Abandon(w, "RETRY_NOT_DUE", r.nextAttemptAt - now)
                           EXCEPT !.stored = r])
        \/ /\ r.status = "RETRYABLE"
           /\ ReclaimAllowed(r, now)
           /\ Become(w, Put(w, "reclaim", r, etag, Reclaim(r, now)))
        \/ /\ r.status \in {"CLAIMED", "SEND_STARTED"}
           /\ RecoverStaleAllowed(r, now)
           /\ Become(w, Put(w, "recover", r, etag, RecoverStale(r, now)))
        \/ /\ r.status \in {"CLAIMED", "SEND_STARTED"}
           /\ ~RecoverStaleAllowed(r, now)
           /\ Become(w, Abandon(w, "ACTIVE_RECEIPT", activeDelay(r, now)))

GetReceipt(w) ==
  /\ worker[w].pc = "get"
  /\ LET p == Path(w) IN
     \/ Become(w, Abandon(w, "RECEIPT_UNAVAILABLE", TicksPerSecond))
     \/ /\ receipts[p] = NoReceipt
        /\ Become(w, Put(w, "create", NoReceipt, 0,
                         ClaimReceipt(Message(w), worker[w].now)))
     \/ /\ receipts[p] # NoReceipt
        /\ Examine(w, receipts[p], etags[p])
  /\ UNCHANGED <<queue, holder, receipts, etags, late, clock, requests, effects, audits>>

\* The second Get, after a Create that met another receipt.
GetAfterConflict(w) ==
  /\ worker[w].pc = "reget"
  /\ LET p == Path(w) IN
     \/ Become(w, Abandon(w, "RECEIPT_CONFLICT", TicksPerSecond))
     \/ /\ receipts[p] # NoReceipt
        /\ Examine(w, receipts[p], etags[p])
  /\ UNCHANGED <<queue, holder, receipts, etags, late, clock, requests, effects, audits>>

------------------------------------------------------------------------------
(***************************************************************************)
(* A conditional write is an upload followed by a read of what is stored.  *)
(* An error leaves the caller not knowing whether the write was or will be *)
(* applied; the client library may also repeat an upload whose answer was  *)
(* lost and meet its own write.                                            *)
(***************************************************************************)
\* A lost commit counts as a success, since the mail was sent.
PutFailedSlip(w, conflict) ==
  IF worker[w].step = "commit"
  THEN AtRow(w, worker[w].row + 1)
  ELSE Abandon(w, "RECEIPT_CONFLICT", TicksPerSecond)

PutFailed(w, conflict) ==
  IF worker[w].step = "create" /\ conflict
  THEN [Idle EXCEPT !.pc = "reget", !.entry = worker[w].entry,
                    !.row = worker[w].row, !.now = worker[w].now]
  ELSE IF worker[w].step = "create"
  THEN Abandon(w, "RECEIPT_UNAVAILABLE", TicksPerSecond)
  ELSE IF worker[w].step = "commit"
  THEN DeadLetter(w, "RECEIPT_COMMIT_UNKNOWN")
  ELSE Abandon(w, "RECEIPT_CONFLICT", TicksPerSecond)

\* The condition of the write is not sent.
ETagMatchesSlip(path, etag) == TRUE

\* If-Match, or If-None-Match: * when the caller saw no receipt.
ETagMatches(path, etag) == etags[path] = etag

Upload(w) ==
  LET p == Path(w)
      holds == ETagMatches(p, worker[w].etag)
      write == [path |-> p, etag |-> worker[w].etag, receipt |-> worker[w].next]
  IN
  /\ worker[w].pc = "upload"
  /\ \/ /\ holds
        /\ ReplaceReceipt(p, worker[w].next)
        /\ \/ Become(w, [worker[w] EXCEPT !.pc = "reread"])
           \/ Become(w, PutFailed(w, TRUE))
        /\ UNCHANGED late
     \/ /\ ~holds
        /\ Become(w, PutFailed(w, TRUE))
        /\ UNCHANGED <<receipts, etags, late>>
     \/ /\ Become(w, PutFailed(w, FALSE))
        /\ UNCHANGED <<receipts, etags, late>>
     \/ /\ Cardinality(late) < MaxLate
        /\ late' = late \cup {write}
        /\ Become(w, PutFailed(w, FALSE))
        /\ UNCHANGED <<receipts, etags>>
  /\ UNCHANGED <<queue, holder, clock, requests, effects, audits>>

\* A write whose caller has given up reaches the store.
LateUpload ==
  \E write \in late :
    /\ late' = late \ {write}
    /\ IF ETagMatches(write.path, write.etag)
       THEN ReplaceReceipt(write.path, write.receipt)
       ELSE UNCHANGED <<receipts, etags>>
    /\ UNCHANGED <<queue, holder, worker, clock, requests, effects, audits>>

audit(p, r) ==
  audits' = [audits EXCEPT ![p] = IF terminal(r) THEN @ + 1 ELSE @]

(***************************************************************************)
(* The write is known to be stored: r and etag are what the read returned. *)
(***************************************************************************)
Committed(w, r, etag) ==
  LET p == Path(w) IN
  \/ /\ worker[w].step \in {"create", "reclaim"}
     /\ Become(w, PutStart(w, r, etag))
     /\ UNCHANGED audits
  \/ /\ worker[w].step = "recover"
     /\ r.status # "UNKNOWN"
     /\ Become(w, PutStart(w, r, etag))
     /\ UNCHANGED audits
  \/ /\ worker[w].step = "recover"
     /\ r.status = "UNKNOWN"
     /\ audit(p, r)
     /\ Become(w, DeadLetter(w, "STALE_SEND_OUTCOME"))
  \/ /\ worker[w].step = "exhaust"
     /\ audit(p, r)
     /\ Become(w, DeadLetter(w, "RETRY_BUDGET_EXHAUSTED"))
  \/ /\ worker[w].step = "start"
     /\ audit(p, r)
     /\ Become(w, [worker[w] EXCEPT !.pc = "send", !.stored = r, !.etag = etag,
                                    !.next = NoReceipt, !.step = "none"])
  \/ /\ worker[w].step = "commit"
     /\ audit(p, r)
     /\ \/ /\ worker[w].next.status \in Delivered
           /\ Become(w, AtRow(w, worker[w].row + 1))
        \/ /\ worker[w].next.status = "RETRYABLE"
           /\ Become(w, [Abandon(w, "PROVIDER_RETRYABLE", worker[w].delay)
                           EXCEPT !.stored = r])
        \/ /\ worker[w].next.status = "FAILED"
           /\ Become(w, DeadLetter(w, "PROVIDER_REJECTED"))
        \/ /\ worker[w].next.status = "UNKNOWN"
           /\ Become(w, DeadLetter(w, "PROVIDER_OUTCOME_UNKNOWN"))

Reread(w) ==
  LET p == Path(w) IN
  /\ worker[w].pc = "reread"
  /\ \/ /\ Become(w, PutFailed(w, TRUE))
        /\ UNCHANGED audits
     \/ /\ receipts[p] # NoReceipt
        /\ receipts[p].stateVersion = worker[w].next.stateVersion
        /\ Committed(w, receipts[p], etags[p])
  /\ UNCHANGED <<queue, holder, receipts, etags, late, clock, requests, effects>>

------------------------------------------------------------------------------
(***************************************************************************)
(* The mail request, and the receipt applyMailResult makes of the answer.  *)
(* A request that got no answer, or one that says neither yes nor no, may  *)
(* have been accepted.  A 429 or 5xx answer is taken, as the program takes *)
(* it, for a refusal.                                                      *)
(***************************************************************************)
Success(r) == IF MailMode = "live" THEN Accept(r) ELSE Simulate(r)

PutOutcome(w, allowed, next, delay) ==
  IF allowed
  THEN [Put(w, "commit", worker[w].stored, worker[w].etag, next) EXCEPT !.delay = delay]
  ELSE DeadLetter(w, "PROVIDER_PROTOCOL_UNKNOWN")

Requested(p, accepted) ==
  /\ requests' = [requests EXCEPT ![p] = @ + 1]
  /\ effects' = [effects EXCEPT ![p] = IF accepted THEN @ + 1 ELSE @]

Send(w) ==
  LET p == Path(w)
      r == worker[w].stored
      now == worker[w].now
  IN
  /\ worker[w].pc = "send"
  /\ \/ \E validRequestID \in BOOLEAN :
          /\ Requested(p, TRUE)
          /\ Become(w, PutOutcome(w, finishAllowed(r) /\ validRequestID, Success(r), 0))
     \/ /\ Requested(p, TRUE)
        /\ Become(w, PutOutcome(w, finishAllowed(r), MarkUnknown(r), 0))
     \/ \E retryAfter \in RetryAfters :
          LET delay == retryDelay(r, retryAfter, Seed[p]) IN
          /\ Requested(p, FALSE)
          /\ Become(w, PutOutcome(w, RetryAllowed(r, now, now + delay),
                                  Retry(r, now + delay), delay))
     \/ /\ Requested(p, FALSE)
        /\ Become(w, PutOutcome(w, finishAllowed(r), Fail(r), 0))
     \* the recipient or the payload is refused before any request
     \/ /\ UNCHANGED <<requests, effects>>
        /\ Become(w, PutOutcome(w, finishAllowed(r), Fail(r), 0))
  /\ UNCHANGED <<queue, holder, receipts, etags, late, clock, audits>>

------------------------------------------------------------------------------
(***************************************************************************)
(* Settling the delivery; the broker ignores a worker whose lock is gone.  *)
(***************************************************************************)
Settle(w) ==
  LET e == worker[w].entry IN
  /\ worker[w].pc = "settle"
  /\ clock >= worker[w].wakeAt
  /\ \/ /\ holder[e] = w
        /\ holder' = [holder EXCEPT ![e] = NoWorker]
        /\ queue' = [queue EXCEPT ![e] =
             CASE worker[w].disposition = "COMPLETE" -> "completed"
               [] worker[w].disposition = "DEAD_LETTER" -> "deadlettered"
               [] OTHER -> "queued"]
     \/ /\ holder[e] # w
        /\ UNCHANGED <<queue, holder>>
  /\ Become(w, Idle)
  /\ UNCHANGED <<receipts, etags, late, clock, requests, effects, audits>>

(***************************************************************************)
(* The worker stops working on its delivery without settling it: it        *)
(* crashes, is shut down, or learns that it could not renew its lock.      *)
(***************************************************************************)
Interrupt(w) ==
  /\ worker[w].pc # "idle"
  /\ Become(w, Idle)
  /\ UNCHANGED <<queue, holder, receipts, etags, late, clock, requests, effects, audits>>

\* The broker takes the lock back, whether or not its holder still works.
LockExpires(e) ==
  /\ holder[e] # NoWorker
  /\ holder' = [holder EXCEPT ![e] = NoWorker]
  /\ UNCHANGED <<queue, receipts, etags, late, worker, clock, requests, effects, audits>>

Tick ==
  /\ clock < MaxClock
  /\ clock' = clock + 1
  /\ UNCHANGED <<queue, holder, receipts, etags, late, worker, requests, effects, audits>>

WorkerStep(w) ==
  \/ \E e \in Entries : Receive(w, e)
  \/ ReadBlobs(w)
  \/ ScanRow(w)
  \/ GetReceipt(w)
  \/ GetAfterConflict(w)
  \/ Upload(w)
  \/ Reread(w)
  \/ Send(w)
  \/ Settle(w)

Next ==
  \/ \E w \in Workers : WorkerStep(w)
  \/ \E w \in Workers : Interrupt(w)
  \/ \E e \in Entries : LockExpires(e)
  \/ LateUpload
  \/ Tick

Spec == Init /\ [][Next]_vars

------------------------------------------------------------------------------
\* Receipts are well formed with attempts within MaxAttempts, and so is all other state.
TypeOK ==
  /\ queue \in [Entries -> {"queued", "completed", "deadlettered"}]
  /\ holder \in [Entries -> Workers \cup {NoWorker}]
  /\ receipts \in [Paths -> Receipts \cup {NoReceipt}]
  /\ etags \in [Paths -> Nat]
  /\ late \subseteq Write
  /\ worker \in [Workers -> WorkerState]
  /\ clock \in Nat
  /\ requests \in [Paths -> Nat]
  /\ effects \in [Paths -> Nat]
  /\ audits \in [Paths -> Nat]

Exists(p) == receipts[p] # NoReceipt

(***************************************************************************)
(* No recipient is mailed twice for one operation: whatever crashes, lost  *)
(* answers, expired locks, duplicate queue entries and late writes occur,  *)
(* at most one request per receipt path is one the provider accepted or    *)
(* may have accepted (worker.go, processRecipient).                        *)
(***************************************************************************)
AtMostOneEffect == \A p \in Paths : effects[p] <= 1

(***************************************************************************)
(* No blind resend: once a request may have been accepted, no worker makes *)
(* another request for that path (RecoverStale makes it UNKNOWN instead).  *)
(***************************************************************************)
NoResend ==
  [][\A p \in Paths : effects[p] > 0 => requests'[p] = requests[p]]_vars

(***************************************************************************)
(* The boundary is durable before the call: when a request reaches the     *)
(* provider the stored receipt already says SEND_STARTED, or UNKNOWN if    *)
(* another worker has meanwhile judged that send to be stale.              *)
(***************************************************************************)
BoundaryBeforeSend ==
  [][\A p \in Paths : requests'[p] # requests[p] =>
       Exists(p) /\ receipts[p].status \in {"SEND_STARTED", "UNKNOWN"}]_vars

(***************************************************************************)
(* The journal tells the truth: a receipt that claims delivery stands for  *)
(* an accepted request, and one that would allow or record a failure       *)
(* (CLAIMED, RETRYABLE, FAILED) never hides a request that may have been   *)
(* accepted.                                                               *)
(***************************************************************************)
JournalTruthful ==
  \A p \in Paths :
    /\ Exists(p) /\ receipts[p].status \in Delivered => effects[p] = 1
    /\ ~Exists(p) \/ receipts[p].status \in {"CLAIMED", "RETRYABLE", "FAILED"}
         => effects[p] = 0

(***************************************************************************)
(* The attempt budget bounds what the provider sees: there are never more  *)
(* requests than the attempts the stored receipt has counted, and a        *)
(* receipt that allows another one has an attempt to spare.                *)
(***************************************************************************)
AttemptBudget ==
  \A p \in Paths :
    IF Exists(p)
    THEN /\ requests[p] <= receipts[p].attemptCount
         /\ receipts[p].status = "CLAIMED" => requests[p] < receipts[p].attemptCount
    ELSE requests[p] = 0

(***************************************************************************)
(* Receipts only move forward: a write adds one to the version, never      *)
(* lowers the attempt count or changes the message, and nothing is written *)
(* over a terminal receipt (receipt.go; azure_storage.go, Replace).        *)
(***************************************************************************)
ReceiptsMonotone ==
  [][\A p \in Paths : Exists(p) /\ receipts'[p] # receipts[p] =>
       /\ ~terminal(receipts[p])
       /\ receipts'[p].stateVersion = receipts[p].stateVersion + 1
       /\ receipts'[p].attemptCount >= receipts[p].attemptCount
       /\ receipts'[p].queueMessageID = receipts[p].queueMessageID]_vars

(***************************************************************************)
(* AzureReceiptStore.put compares only the version of what it reads back.  *)
(* That is enough: whenever the version is the one written, the receipt is *)
(* the one written.                                                        *)
(***************************************************************************)
RereadIsOwnWrite ==
  \A w \in Workers :
    LET p == Path(w) IN
    /\ worker[w].pc = "reread"
    /\ Exists(p)
    /\ receipts[p].stateVersion = worker[w].next.stateVersion
    => receipts[p] = worker[w].next

(***************************************************************************)
(* Rows are mailed in order: a row has a receipt of this message only if   *)
(* every earlier row of the batch has been delivered (errStopBatch).       *)
(***************************************************************************)
BatchPrefix ==
  \A m \in Messages : \A j \in 1..Len(Rows[m]) :
    Exists(Rows[m][j]) /\ receipts[Rows[m][j]].queueMessageID = m =>
      \A i \in 1..(j - 1) :
        Exists(Rows[m][i]) /\ receipts[Rows[m][i]].status \in Delivered

(***************************************************************************)
(* A completed message is done: every row of its batch was delivered.      *)
(***************************************************************************)
CompletedDelivered ==
  \A e \in Entries : queue[e] = "completed" =>
    \A i \in 1..Len(Rows[Body[e]]) :
      LET p == Rows[Body[e]][i] IN Exists(p) /\ receipts[p].status \in Delivered

(***************************************************************************)
(* At most one terminal audit event per receipt, and only for a receipt    *)
(* that is stored as terminal ("committed state transitions", Auditor).    *)
(***************************************************************************)
TerminalAuditedOnce ==
  \A p \in Paths :
    /\ audits[p] <= 1
    /\ audits[p] = 1 => Exists(p) /\ terminal(receipts[p])

(***************************************************************************)
(* A retry starts only when the durable retry is due, although the worker  *)
(* compares the due time with a clock reading it took before the Get.      *)
(***************************************************************************)
RetryOnlyWhenDue ==
  [][\A p \in Paths :
       Exists(p) /\ receipts[p].status = "RETRYABLE" /\ receipts'[p].status = "CLAIMED"
         => clock >= receipts[p].nextAttemptAt]_vars

(***************************************************************************)
(* A delivery abandoned because its retry lies in the future is held until *)
(* the retry is due, so that its redelivery is not wasted, even if the     *)
(* verdict was computed from an old clock reading or clamped at MaxDelay.  *)
(***************************************************************************)
AbandonHoldsUntilDue ==
  \A w \in Workers :
    /\ worker[w].pc = "settle"
    /\ worker[w].reason \in {"RETRY_NOT_DUE", "PROVIDER_RETRYABLE"}
    => worker[w].wakeAt >= worker[w].stored.nextAttemptAt

(***************************************************************************)
(* A blob service failure never dead-letters the message.                  *)
(***************************************************************************)
TransientBlobFailureAbandons ==
  \A w \in Workers :
    worker[w].pc = "settle" /\ worker[w].fault = "dependency"
      => worker[w].disposition = "ABANDON"
==============================================================================
