------------------------------ MODULE WorkerTypes ------------------------------
(***************************************************************************)
(* Type correctness of the worker, for any number of workers, entries,     *)
(* messages and recipients and any retry policy, and the lemmas that say   *)
(* where each step takes its worker.                                       *)
(***************************************************************************)
EXTENDS WorkerInvariant, TLAPS

------------------------------------------------------------------------------
(***************************************************************************)
(* The data: times, delays and receipts.                                   *)
(***************************************************************************)
\* A stored time is a time (formatTime).
LEMMA FormatTimeNat == ASSUME NEW t \in Nat PROVE formatTime(t) \in Nat
<1>1. t \div TicksPerSecond \in Nat
  BY TicksPerSecondAssumption
<1>2. QED
  BY <1>1, TicksPerSecondAssumption DEF formatTime

\* Whatever the wait asked for, the one used is a duration (boundedDelay).
LEMMA BoundedDelayNat == ASSUME NEW v \in Int PROVE boundedDelay(v) \in Nat
  BY TicksPerSecondAssumption, MaxDelayAssumption DEF boundedDelay, Smaller, Larger

\* The retry delay is a duration (retryDelay).
LEMMA RetryDelayNat ==
  ASSUME NEW r \in Receipts, NEW retryAfter \in Nat, NEW seed \in Nat
  PROVE  retryDelay(r, retryAfter, seed) \in Nat
<1>1. r.attemptCount \in 1..5
  BY MaxAttemptsAssumption DEF Receipts, ReceiptOf
<1>2. <<1, 2, 4, 8, 16>>[r.attemptCount] \in Nat
  BY <1>1
<1>3. exponential(r.attemptCount) \in Nat
  BY <1>2, TicksPerSecondAssumption DEF exponential
<1> DEFINE base == boundedDelay(Larger(retryAfter, exponential(r.attemptCount)))
<1>4. base \in Nat
  BY <1>3, BoundedDelayNat DEF Larger
<1>5. jitter(base, seed) \in Nat
  <2> DEFINE range == Smaller(Larger(base \div 4, TicksPerSecond), 10 * TicksPerSecond)
             slots == (range \div TicksPerSecond) + 1
  <2>1. range \in Nat
    BY <1>4, TicksPerSecondAssumption DEF Smaller, Larger
  <2> HIDE DEF range
  <2>2. slots \in Nat \ {0}
    BY <2>1, TicksPerSecondAssumption
  <2> HIDE DEF slots
  <2>3. seed % slots \in Nat
    BY <2>2
  <2>4. (seed % slots) * TicksPerSecond \in Nat
    BY <2>3, TicksPerSecondAssumption
  <2>5. QED
    BY <2>4 DEF jitter, range, slots
<1> HIDE DEF base
<1>6. boundedDelay(base + jitter(base, seed)) \in Nat
  BY <1>4, <1>5, BoundedDelayNat
<1>7. QED
  BY <1>6 DEF retryDelay, base

\* Every transition of a receipt yields a receipt (receipt.go).
LEMMA TransitionsTyped ==
  ASSUME NEW r \in Receipts, NEW now \in Nat
  PROVE  /\ StartSend(r, now) \in Receipts
         /\ \A status \in ReceiptStatus : finish(r, status) \in Receipts
         /\ Retry(r, now) \in Receipts
         /\ Exhaust(r) \in Receipts
         /\ ReclaimAllowed(r, now) => Reclaim(r, now) \in Receipts
         /\ RecoverStaleAllowed(r, now) => RecoverStale(r, now) \in Receipts
<1> formatTime(now) \in Time /\ NoTime \in Time
  BY FormatTimeNat DEF Time
<1> r.stateVersion + 1 \in Nat \ {0}
  BY DEF Receipts, ReceiptOf
<1>a. r.attemptCount < MaxAttempts => r.attemptCount + 1 \in 1..MaxAttempts
  BY MaxAttemptsAssumption DEF Receipts, ReceiptOf
<1> USE DEF Receipts, ReceiptOf
<1>1. StartSend(r, now) \in Receipts
  BY DEF StartSend, ReceiptStatus
<1>2. ASSUME NEW status \in ReceiptStatus PROVE finish(r, status) \in Receipts
  BY DEF finish
<1>3. Retry(r, now) \in Receipts
  BY DEF Retry, ReceiptStatus
<1>4. Exhaust(r) \in Receipts
  BY DEF Exhaust, ReceiptStatus
<1>5. ReclaimAllowed(r, now) => Reclaim(r, now) \in Receipts
  BY <1>a DEF ReclaimAllowed, Reclaim, ReceiptStatus
<1>6. RecoverStaleAllowed(r, now) => RecoverStale(r, now) \in Receipts
  <2>1. CASE r.status = "CLAIMED"
    BY <1>a, <2>1 DEF RecoverStaleAllowed, RecoverStale
  <2>2. CASE r.status # "CLAIMED"
    BY <1>2, <2>2 DEF RecoverStale, MarkUnknown, ReceiptStatus
  <2>3. QED
    BY <2>1, <2>2
<1>7. QED
  BY <1>1, <1>2, <1>3, <1>4, <1>5, <1>6

\* A new claim is a receipt (ClaimReceipt).
LEMMA ClaimTyped ==
  ASSUME NEW m \in Messages, NEW now \in Nat
  PROVE  ClaimReceipt(m, now) \in Receipts
  BY FormatTimeNat, MaxAttemptsAssumption
  DEF ClaimReceipt, Receipts, ReceiptOf, ReceiptStatus, Time

------------------------------------------------------------------------------
(***************************************************************************)
(* The building blocks of the steps give well-formed worker states.  In a  *)
(* quiet one the worker neither writes nor may call the provider.          *)
(***************************************************************************)
Quiet == {s \in GoodStates : s.pc \notin {"upload", "reread", "send"}}

\* What the type invariant says of one worker.
LEMMA WorkerFacts ==
  ASSUME TypeInv, NEW w \in Workers
  PROVE  /\ worker[w] \in WorkerState
         /\ ControlOK(worker[w])
         /\ worker[w].pc # "idle" =>
              /\ worker[w].entry \in Entries
              /\ Message(w) \in Messages
              /\ Rows[Message(w)] \in Seq(Paths)
         /\ worker[w].pc \in OnRow =>
              /\ worker[w].pc # "idle"
              /\ Path(w) \in Paths
              /\ worker[w].row \in Nat \ {0}
<1>1. worker[w] \in WorkerState /\ ControlOK(worker[w])
  BY DEF TypeInv, GoodStates
<1>2. ASSUME worker[w].pc # "idle"
      PROVE  /\ worker[w].entry \in Entries
             /\ Message(w) \in Messages
             /\ Rows[Message(w)] \in Seq(Paths)
  BY <1>1, <1>2, WorkerAssumption DEF ControlOK, Message
<1>3. ASSUME worker[w].pc \in OnRow
      PROVE  /\ worker[w].pc # "idle"
             /\ Path(w) \in Paths
             /\ worker[w].row \in Nat \ {0}
  <2>1. worker[w].pc # "idle"
    BY <1>3 DEF OnRow
  <2>2. worker[w].row \in 1..Len(Rows[Message(w)])
    BY <1>1, <1>3 DEF ControlOK, Message
  <2>3. QED
    BY <1>2, <2>1, <2>2 DEF Path
<1>4. QED
  BY <1>1, <1>2, <1>3

\* A worker without a delivery.
LEMMA IdleGood == Idle \in Quiet
<1>1. Idle \in WorkerState
  BY DEF Idle, WorkerState
<1>2. QED
  BY <1>1 DEF Idle, Quiet, GoodStates, ControlOK, OnRow

\* The end of Process (Verdict).
LEMMA VerdictGood ==
  ASSUME TypeInv, NEW w \in Workers, worker[w].pc # "idle",
         NEW disposition \in {"COMPLETE", "ABANDON", "DEAD_LETTER"},
         NEW reason \in Reasons \cup {"none"},
         NEW wait \in Int
  PROVE  Verdict(w, disposition, reason, wait) \in Quiet
<1>1. worker[w].entry \in Entries /\ clock \in Nat
  BY DEF TypeInv, TypeOK, GoodStates, ControlOK
<1>2. clock + boundedDelay(wait) \in Nat
  BY <1>1, BoundedDelayNat
<1>3. Verdict(w, disposition, reason, wait) \in WorkerState
  BY <1>1, <1>2 DEF Verdict, Idle, WorkerState
<1>4. QED
  BY <1>1, <1>3 DEF Verdict, Idle, Quiet, GoodStates, ControlOK, OnRow

\* The three dispositions.
LEMMA DispositionsGood ==
  ASSUME TypeInv, NEW w \in Workers, worker[w].pc # "idle"
  PROVE  /\ Complete(w) \in Quiet
         /\ \A reason \in Reasons : DeadLetter(w, reason) \in Quiet
         /\ \A reason \in Reasons, wait \in Int : Abandon(w, reason, wait) \in Quiet
<1>1. Complete(w) \in Quiet
  BY VerdictGood DEF Complete
<1>2. \A reason \in Reasons : DeadLetter(w, reason) \in Quiet
  BY VerdictGood DEF DeadLetter
<1>3. \A reason \in Reasons, wait \in Int : Abandon(w, reason, wait) \in Quiet
  BY VerdictGood DEF Abandon
<1>4. QED
  BY <1>1, <1>2, <1>3

\* A verdict annotated with its cause.
LEMMA AnnotatedGood ==
  ASSUME NEW s \in Quiet
  PROVE  /\ \A fault \in Faults : [s EXCEPT !.fault = fault] \in Quiet
         /\ \A r \in Receipts : [s EXCEPT !.stored = r] \in Quiet
<1>1. ASSUME NEW fault \in Faults PROVE [s EXCEPT !.fault = fault] \in Quiet
  <2>1. [s EXCEPT !.fault = fault] \in WorkerState
    BY DEF Quiet, GoodStates, WorkerState
  <2>2. QED
    BY <2>1 DEF Quiet, GoodStates, WorkerState, ControlOK, OnRow
<1>2. ASSUME NEW r \in Receipts PROVE [s EXCEPT !.stored = r] \in Quiet
  <2>1. [s EXCEPT !.stored = r] \in WorkerState
    BY DEF Quiet, GoodStates, WorkerState
  <2>2. QED
    BY <2>1 DEF Quiet, GoodStates, WorkerState, ControlOK, OnRow
<1>3. QED
  BY <1>1, <1>2

\* The next row (AtRow).
LEMMA AtRowGood ==
  ASSUME TypeInv, NEW w \in Workers, worker[w].pc # "idle", NEW n \in Nat \ {0}
  PROVE  AtRow(w, n) \in Quiet
<1>1. worker[w].entry \in Entries
  BY DEF TypeInv, TypeOK, GoodStates, ControlOK
<1>2. AtRow(w, n) \in WorkerState
  BY <1>1 DEF AtRow, Idle, WorkerState
<1>3. AtRow(w, n).pc = "row" /\ AtRow(w, n).entry \in Entries /\ AtRow(w, n).row > 0
  BY <1>1 DEF AtRow, Idle
<1>4. QED
  BY <1>2, <1>3 DEF Quiet, GoodStates, ControlOK, OnRow

\* The start of a conditional write (Put).
LEMMA PutGood ==
  ASSUME TypeInv, NEW w \in Workers, worker[w].pc \in OnRow,
         NEW step \in Steps,
         NEW r \in Receipts \cup {NoReceipt},
         NEW etag \in Nat,
         NEW next \in Receipts
  PROVE  Put(w, step, r, etag, next) \in GoodStates
<1> DEFINE s == Put(w, step, r, etag, next)
<1>1. worker[w] \in WorkerState /\ ControlOK(worker[w])
  BY DEF TypeInv, GoodStates
<1>2. s \in WorkerState
  BY <1>1 DEF Put, WorkerState
<1>3. /\ s.pc = "upload"
      /\ s.entry = worker[w].entry
      /\ s.row = worker[w].row
      /\ s.next = next
      /\ s.step = step
  BY <1>1 DEF Put, WorkerState
<1>4. QED
  BY <1>1, <1>2, <1>3 DEF GoodStates, ControlOK, OnRow

\* The start of the SEND_STARTED write (PutStart).
LEMMA PutStartGood ==
  ASSUME TypeInv, NEW w \in Workers, worker[w].pc \in OnRow,
         NEW r \in Receipts, NEW etag \in Nat
  PROVE  PutStart(w, r, etag) \in GoodStates
<1>1. worker[w].now \in Nat /\ worker[w].pc # "idle"
  BY DEF TypeInv, GoodStates, WorkerState, OnRow
<1>2. Put(w, "start", r, etag, StartSend(r, worker[w].now)) \in GoodStates
  BY <1>1, PutGood, TransitionsTyped DEF Steps
<1>3. Abandon(w, "RECEIPT_CONFLICT", TicksPerSecond) \in GoodStates
  BY <1>1, DispositionsGood, TicksPerSecondAssumption DEF Reasons, Quiet
<1>4. QED
  BY <1>2, <1>3 DEF PutStart

\* A write that reported an error (PutFailed).
LEMMA PutFailedGood ==
  ASSUME TypeInv, NEW w \in Workers, worker[w].pc \in OnRow, NEW conflict \in BOOLEAN
  PROVE  PutFailed(w, conflict) \in Quiet
<1>1. worker[w] \in WorkerState /\ ControlOK(worker[w]) /\ worker[w].pc # "idle"
  BY WorkerFacts
<1> DEFINE s == [Idle EXCEPT !.pc = "reget", !.entry = worker[w].entry,
                             !.row = worker[w].row, !.now = worker[w].now]
<1>2. s \in Quiet
  <2>1. s \in WorkerState
    BY <1>1 DEF Idle, WorkerState
  <2>2. s.pc = "reget" /\ s.entry = worker[w].entry /\ s.row = worker[w].row
    BY DEF Idle
  <2>3. QED
    BY <1>1, <2>1, <2>2 DEF Quiet, GoodStates, ControlOK, OnRow
<1>3. \A reason \in Reasons : /\ Abandon(w, reason, TicksPerSecond) \in Quiet
                              /\ DeadLetter(w, reason) \in Quiet
  BY <1>1, DispositionsGood, TicksPerSecondAssumption
<1>4. QED
  BY <1>2, <1>3 DEF PutFailed, Reasons

------------------------------------------------------------------------------
(***************************************************************************)
(* Where each step takes its worker.                                       *)
(***************************************************************************)
Moves(w, states) == \E s \in states : Become(w, s)

\* Taking a delivery leaves a good state (Receive).
LEMMA ReceiveMoves ==
  ASSUME TypeInv, NEW w \in Workers, NEW e \in Entries, Receive(w, e)
  PROVE  Moves(w, Quiet)
<1> DEFINE s == [Idle EXCEPT !.pc = "blobs", !.entry = e]
<1>1. s \in WorkerState
  BY DEF Idle, WorkerState
<1>2. s.pc = "blobs" /\ s.entry = e
  BY DEF Idle
<1>3. s \in Quiet
  BY <1>1, <1>2 DEF Quiet, GoodStates, ControlOK, OnRow
<1>4. QED
  BY <1>3 DEF Receive, Moves

\* So does reading the manifest and the batch (ReadBlobs).
LEMMA ReadBlobsMoves ==
  ASSUME TypeInv, NEW w \in Workers, ReadBlobs(w)
  PROVE  Moves(w, Quiet)
<1>1. worker[w].pc # "idle"
  BY DEF ReadBlobs
<1>2. DeadLetter(w, "MESSAGE_INVALID") \in Quiet /\ AtRow(w, 1) \in Quiet
  BY <1>1, DispositionsGood, AtRowGood DEF Reasons
<1>3. ASSUME NEW check \in BlobChecks, NEW fault \in Faults
      PROVE  BlobVerdict(w, check, fault) \in Quiet
  <2>1. /\ Abandon(w, "BLOB_UNAVAILABLE", TicksPerSecond) \in Quiet
        /\ DeadLetter(w, "REFERENCED_BLOB_INVALID") \in Quiet
    BY <1>1, DispositionsGood, TicksPerSecondAssumption DEF Reasons
  <2>2. QED
    BY <2>1, AnnotatedGood DEF BlobVerdict
<1>4. QED
  BY <1>2, <1>3 DEF ReadBlobs, Moves

\* So does going on to the next row or ending the batch (ScanRow).
LEMMA ScanRowMoves ==
  ASSUME TypeInv, NEW w \in Workers, ScanRow(w)
  PROVE  Moves(w, Quiet)
<1>1. worker[w] \in WorkerState /\ ControlOK(worker[w]) /\ worker[w].pc = "row"
  BY WorkerFacts DEF ScanRow
<1>2. clock \in Nat /\ Rows[Message(w)] \in Seq(Paths)
  BY <1>1, WorkerFacts DEF TypeInv, TypeOK
<1> DEFINE s == [worker[w] EXCEPT !.pc = "get", !.now = clock]
<1>3. ASSUME worker[w].row <= Len(Rows[Message(w)]) PROVE s \in Quiet
  <2>1. s \in WorkerState
    BY <1>1, <1>2 DEF WorkerState
  <2>2. s.pc = "get" /\ s.entry = worker[w].entry /\ s.row = worker[w].row
    BY <1>1 DEF WorkerState
  <2>3. worker[w].row \in Nat /\ worker[w].row > 0 /\ worker[w].entry \in Entries
    BY <1>1 DEF WorkerState, ControlOK
  <2>4. worker[w].row \in 1..Len(Rows[Body[worker[w].entry]])
    BY <1>2, <1>3, <2>3 DEF Message
  <2> HIDE DEF s
  <2>5. QED
    BY <2>1, <2>2, <2>3, <2>4 DEF Quiet, GoodStates, ControlOK, OnRow
<1>4. /\ Complete(w) \in Quiet
      /\ \A fault \in Faults :
           [DeadLetter(w, "REFERENCED_BLOB_INVALID") EXCEPT !.fault = fault] \in Quiet
  BY <1>1, DispositionsGood, AnnotatedGood DEF Reasons
<1>5. QED
  BY <1>3, <1>4 DEF ScanRow, Moves

(***************************************************************************)
(* next takes over a receipt r that is not terminal: the retry budget is   *)
(* exhausted, a new attempt is claimed, or a stale send becomes UNKNOWN.   *)
(***************************************************************************)
Takeover(r, next) ==
  /\ next \in Receipts
  /\ next.stateVersion = r.stateVersion + 1
  /\ next.queueMessageID = r.queueMessageID
  /\ \/ /\ r.status = "RETRYABLE" /\ next.status = "FAILED"
        /\ next.attemptCount = r.attemptCount
     \/ /\ r.status \in {"RETRYABLE", "CLAIMED"} /\ next.status = "CLAIMED"
        /\ next.attemptCount = r.attemptCount + 1
     \/ /\ r.status = "SEND_STARTED" /\ next.status = "UNKNOWN"
        /\ next.attemptCount = r.attemptCount

\* The transitions that processRecipient applies to a receipt it finds.
LEMMA TakeoverTransitions ==
  ASSUME NEW r \in Receipts, NEW now \in Nat
  PROVE  /\ r.status = "RETRYABLE" => Takeover(r, Exhaust(r))
         /\ ReclaimAllowed(r, now) => Takeover(r, Reclaim(r, now))
         /\ RecoverStaleAllowed(r, now) => Takeover(r, RecoverStale(r, now))
<1>1. r.status = "RETRYABLE" => Takeover(r, Exhaust(r))
  BY TransitionsTyped DEF Takeover, Exhaust, Receipts, ReceiptOf
<1>2. ReclaimAllowed(r, now) => Takeover(r, Reclaim(r, now))
  BY TransitionsTyped DEF Takeover, ReclaimAllowed, Reclaim, Receipts, ReceiptOf
<1>3. RecoverStaleAllowed(r, now) => Takeover(r, RecoverStale(r, now))
  BY TransitionsTyped
  DEF Takeover, RecoverStaleAllowed, RecoverStale, MarkUnknown, finish, Receipts, ReceiptOf
<1>4. QED
  BY <1>1, <1>2, <1>3

\* A worker that has looked at a receipt either begins no write, or writes a
\* takeover of that receipt over it (Examine).
LEMMA ExamineMoves ==
  ASSUME TypeInv, NEW w \in Workers, worker[w].pc \in OnRow,
         NEW r \in Receipts, NEW etag \in Nat, Examine(w, r, etag)
  PROVE  \/ Moves(w, Quiet)
         \/ \E step \in Steps \ {"start"}, next \in Receipts :
              Takeover(r, next) /\ Become(w, Put(w, step, r, etag, next))
<1> DEFINE now == worker[w].now
<1>1. now \in Nat /\ worker[w].pc # "idle" /\ worker[w].row \in Nat
  BY WorkerFacts DEF WorkerState
<1>2. ASSUME NEW s \in Quiet, Become(w, s) PROVE Moves(w, Quiet)
  BY <1>2 DEF Moves
<1>3. \A reason \in Reasons : /\ DeadLetter(w, reason) \in Quiet
                              /\ \A wait \in Int : Abandon(w, reason, wait) \in Quiet
  BY <1>1, DispositionsGood
<1>4. AtRow(w, worker[w].row + 1) \in Quiet
  BY <1>1, AtRowGood
<1>5. activeDelay(r, now) \in Int
  BY <1>1, BoundedDelayNat, TicksPerSecondAssumption, ClaimTimeoutAssumption
  DEF activeDelay, Receipts, ReceiptOf, Time, NoTime
<1>6. r.nextAttemptAt - now \in Int
  BY <1>1 DEF Receipts, ReceiptOf, Time, NoTime
<1>7. [Abandon(w, "RETRY_NOT_DUE", r.nextAttemptAt - now) EXCEPT !.stored = r] \in Quiet
  BY <1>3, <1>6, AnnotatedGood DEF Reasons
<1>8. CASE r.status = "RETRYABLE" /\ Become(w, Put(w, "exhaust", r, etag, Exhaust(r)))
  BY <1>1, <1>8, TakeoverTransitions DEF Takeover, Steps
<1>9. CASE /\ ReclaimAllowed(r, now)
           /\ Become(w, Put(w, "reclaim", r, etag, Reclaim(r, now)))
  BY <1>1, <1>9, TakeoverTransitions DEF Takeover, Steps
<1>10. CASE /\ RecoverStaleAllowed(r, now)
            /\ Become(w, Put(w, "recover", r, etag, RecoverStale(r, now)))
  BY <1>1, <1>10, TakeoverTransitions DEF Takeover, Steps
<1>11. QED
  BY <1>2, <1>3, <1>4, <1>5, <1>7, <1>8, <1>9, <1>10 DEF Examine, Reasons

(***************************************************************************)
(* The first Get of a row, and the one after a conflict.                   *)
(***************************************************************************)
LEMMA GetMoves ==
  ASSUME TypeInv, NEW w \in Workers, GetReceipt(w) \/ GetAfterConflict(w)
  PROVE  LET p == Path(w) IN
         \/ Moves(w, Quiet)
         \/ /\ receipts[p] = NoReceipt
            /\ Become(w, Put(w, "create", NoReceipt, 0,
                             ClaimReceipt(Message(w), worker[w].now)))
         \/ /\ receipts[p] \in Receipts
            /\ \E step \in Steps \ {"start"}, next \in Receipts :
                 /\ Takeover(receipts[p], next)
                 /\ Become(w, Put(w, step, receipts[p], etags[p], next))
<1> DEFINE p == Path(w)
<1>1. worker[w].pc \in OnRow /\ worker[w].pc # "idle"
  BY DEF GetReceipt, GetAfterConflict, OnRow
<1>2. /\ p \in Paths
      /\ receipts[p] \in Receipts \cup {NoReceipt}
      /\ etags[p] \in Nat
  BY <1>1, WorkerFacts DEF TypeInv, TypeOK
<1>3. /\ Abandon(w, "RECEIPT_UNAVAILABLE", TicksPerSecond) \in Quiet
      /\ Abandon(w, "RECEIPT_CONFLICT", TicksPerSecond) \in Quiet
  BY <1>1, DispositionsGood, TicksPerSecondAssumption DEF Reasons
<1>4. CASE receipts[p] # NoReceipt /\ Examine(w, receipts[p], etags[p])
  BY <1>1, <1>2, <1>4, ExamineMoves
<1>5. QED
  BY <1>3, <1>4 DEF GetReceipt, GetAfterConflict, Moves

\* Leaving the upload of a write that was applied.
LEMMA RereadStateGood ==
  ASSUME TypeInv, NEW w \in Workers, worker[w].pc = "upload"
  PROVE  [worker[w] EXCEPT !.pc = "reread"] \in GoodStates
<1>1. worker[w] \in WorkerState /\ ControlOK(worker[w])
  BY WorkerFacts
<1>2. [worker[w] EXCEPT !.pc = "reread"] \in WorkerState
  BY <1>1 DEF WorkerState
<1>3. QED
  BY <1>1, <1>2 DEF WorkerState, GoodStates, ControlOK, OnRow

\* The worker that has read back its SEND_STARTED.
SendState(w, r, etag) ==
  [worker[w] EXCEPT !.pc = "send", !.stored = r, !.etag = etag,
                    !.next = NoReceipt, !.step = "none"]

\* The state in which the provider is about to be called is good (SendState).
LEMMA SendStateGood ==
  ASSUME TypeInv, NEW w \in Workers, worker[w].pc = "reread",
         NEW r \in Receipts, NEW etag \in Nat
  PROVE  SendState(w, r, etag) \in GoodStates
<1> DEFINE s == SendState(w, r, etag)
<1>1. worker[w] \in WorkerState /\ ControlOK(worker[w])
  BY WorkerFacts
<1>2. s \in WorkerState
  BY <1>1 DEF SendState, WorkerState
<1>3. /\ s.pc = "send" /\ s.stored = r
      /\ s.entry = worker[w].entry /\ s.row = worker[w].row
  BY <1>1 DEF SendState, WorkerState
<1> HIDE DEF s
<1>4. QED
  BY <1>1, <1>2, <1>3 DEF GoodStates, ControlOK, OnRow, s

\* Reading a write back ends in a quiet state, in the SEND_STARTED write that
\* follows a claim, or in the call of the provider (Reread).
LEMMA RereadMoves ==
  ASSUME TypeInv, NEW w \in Workers, Reread(w)
  PROVE  LET p == Path(w) IN
         \/ Moves(w, Quiet)
         \/ /\ receipts[p] \in Receipts
            /\ receipts[p].stateVersion = worker[w].next.stateVersion
            /\ \/ /\ receipts[p].status = "CLAIMED"
                  /\ Become(w, Put(w, "start", receipts[p], etags[p],
                                   StartSend(receipts[p], worker[w].now)))
               \/ /\ worker[w].step = "start"
                  /\ Become(w, SendState(w, receipts[p], etags[p]))
<1> DEFINE p == Path(w)
           r == receipts[p]
<1>1. worker[w].pc = "reread" /\ worker[w].pc \in OnRow /\ worker[w].pc # "idle"
  BY DEF Reread, OnRow
<1>2. /\ worker[w] \in WorkerState
      /\ worker[w].row + 1 \in Nat \ {0}
      /\ p \in Paths
      /\ r \in Receipts \cup {NoReceipt}
  BY <1>1, WorkerFacts DEF TypeInv, TypeOK
<1>3. ASSUME NEW s \in Quiet, Become(w, s) PROVE Moves(w, Quiet)
  BY <1>3 DEF Moves
<1>4. CASE Become(w, PutFailed(w, TRUE))
  BY <1>1, <1>3, <1>4, PutFailedGood
<1>5. CASE /\ r # NoReceipt
           /\ r.stateVersion = worker[w].next.stateVersion
           /\ Committed(w, r, etags[p])
  <2>1. r \in Receipts
    BY <1>2, <1>5
  <2>2. \A reason \in Reasons : DeadLetter(w, reason) \in Quiet
    BY <1>1, DispositionsGood
  <2>3. AtRow(w, worker[w].row + 1) \in Quiet
    BY <1>1, <1>2, AtRowGood
  <2>4. [Abandon(w, "PROVIDER_RETRYABLE", worker[w].delay) EXCEPT !.stored = r] \in Quiet
    <3>1. worker[w].delay \in Int
      BY <1>2 DEF WorkerState
    <3>2. Abandon(w, "PROVIDER_RETRYABLE", worker[w].delay) \in Quiet
      BY <1>1, <3>1, DispositionsGood DEF Reasons
    <3>3. QED
      BY <2>1, <3>2, AnnotatedGood
  <2>5. CASE Become(w, PutStart(w, r, etags[p]))
    <3>1. Abandon(w, "RECEIPT_CONFLICT", TicksPerSecond) \in Quiet
      BY <1>1, DispositionsGood, TicksPerSecondAssumption DEF Reasons
    <3>2. QED
      BY <1>3, <1>5, <2>1, <2>5, <3>1 DEF PutStart, StartSendAllowed
  <2>6. CASE worker[w].step = "start" /\ Become(w, SendState(w, r, etags[p]))
    BY <1>5, <2>1, <2>6
  <2>7. QED
    BY <1>3, <1>5, <2>2, <2>3, <2>4, <2>5, <2>6 DEF Committed, Reasons, SendState
<1>6. QED
  BY <1>4, <1>5 DEF Reread

(***************************************************************************)
(* next records how the send r stands for ended; accepted says whether the *)
(* provider took the request, or may have.                                 *)
(***************************************************************************)
Outcome(r, next, accepted) ==
  /\ next \in Receipts
  /\ r.status = "SEND_STARTED"
  /\ next.stateVersion = r.stateVersion + 1
  /\ next.queueMessageID = r.queueMessageID
  /\ next.attemptCount = r.attemptCount
  /\ next.status \in IF accepted THEN Delivered \cup {"UNKNOWN"}
                                ELSE {"RETRYABLE", "FAILED"}

\* The worker that writes the outcome of its send.
CommitState(w, next, delay) ==
  [Put(w, "commit", worker[w].stored, worker[w].etag, next) EXCEPT !.delay = delay]

\* The state in which an outcome is being written is good (CommitState).
LEMMA CommitStateGood ==
  ASSUME TypeInv, NEW w \in Workers, worker[w].pc = "send",
         NEW next \in Receipts, NEW delay \in Nat
  PROVE  CommitState(w, next, delay) \in GoodStates
<1> DEFINE s == Put(w, "commit", worker[w].stored, worker[w].etag, next)
<1>1. s \in GoodStates
  <2>1. worker[w].stored \in Receipts /\ worker[w].etag \in Nat /\ worker[w].pc \in OnRow
    BY WorkerFacts DEF WorkerState, ControlOK, OnRow
  <2>2. QED
    BY <2>1, PutGood DEF Steps
<1> HIDE DEF s
<1>2. [s EXCEPT !.delay = delay] \in WorkerState
  BY <1>1 DEF GoodStates, WorkerState
<1>3. [s EXCEPT !.delay = delay] \in GoodStates
  BY <1>1, <1>2 DEF GoodStates, WorkerState, ControlOK, OnRow
<1>4. QED
  BY <1>3 DEF CommitState, s

\* The call of the provider ends in a quiet state or in the write of an outcome
\* that agrees with what the provider has seen (Send).
LEMMA SendOutcomes ==
  ASSUME TypeInv, NEW w \in Workers, Send(w)
  PROVE  LET p == Path(w) IN
         \E accepted \in BOOLEAN :
           /\ \/ Requested(p, accepted)
              \/ ~accepted /\ UNCHANGED <<requests, effects>>
           /\ \/ Become(w, DeadLetter(w, "PROVIDER_PROTOCOL_UNKNOWN"))
              \/ \E next \in Receipts, delay \in Nat :
                   /\ Outcome(worker[w].stored, next, accepted)
                   /\ Become(w, CommitState(w, next, delay))
<1> DEFINE p == Path(w)
           r == worker[w].stored
           now == worker[w].now
<1>1. worker[w].pc = "send" /\ worker[w].pc \in OnRow /\ worker[w].pc # "idle"
  BY DEF Send, OnRow
<1>2. now \in Nat /\ p \in Paths /\ r \in Receipts
  BY <1>1, WorkerFacts DEF WorkerState, ControlOK
<1>3. \A status \in ReceiptStatus :
        /\ finish(r, status) \in Receipts
        /\ finish(r, status).status = status
        /\ finish(r, status).stateVersion = r.stateVersion + 1
        /\ finish(r, status).queueMessageID = r.queueMessageID
        /\ finish(r, status).attemptCount = r.attemptCount
  BY <1>2, TransitionsTyped DEF finish, Receipts, ReceiptOf
<1>4. ASSUME NEW allowed \in BOOLEAN, NEW accepted \in BOOLEAN,
             NEW next \in Receipts, NEW delay \in Nat,
             allowed => Outcome(r, next, accepted),
             Become(w, PutOutcome(w, allowed, next, delay))
      PROVE  \/ Become(w, DeadLetter(w, "PROVIDER_PROTOCOL_UNKNOWN"))
             \/ \E n \in Receipts, d \in Nat :
                  Outcome(r, n, accepted) /\ Become(w, CommitState(w, n, d))
  BY <1>4 DEF PutOutcome, CommitState
<1>5. /\ Outcome(r, Success(r), TRUE) \/ ~finishAllowed(r)
      /\ Outcome(r, MarkUnknown(r), TRUE) \/ ~finishAllowed(r)
      /\ Outcome(r, Fail(r), FALSE) \/ ~finishAllowed(r)
      /\ Success(r) \in Receipts /\ MarkUnknown(r) \in Receipts /\ Fail(r) \in Receipts
  BY <1>3 DEF Outcome, Success, Accept, Simulate, MarkUnknown, Fail, finishAllowed,
              Delivered, ReceiptStatus
<1>6. ASSUME NEW retryAfter \in RetryAfters
      PROVE  LET delay == retryDelay(r, retryAfter, Seed[p])
                 next == Retry(r, now + delay)
             IN  /\ delay \in Nat
                 /\ next \in Receipts
                 /\ RetryAllowed(r, now, now + delay) => Outcome(r, next, FALSE)
  <2> DEFINE delay == retryDelay(r, retryAfter, Seed[p])
             next == Retry(r, now + delay)
  <2>1. delay \in Nat
    BY <1>2, RetryDelayNat, WorkerAssumption
  <2> HIDE DEF delay
  <2>2. next \in Receipts
    <3>1. now + delay \in Nat
      BY <1>2, <2>1
    <3>2. QED
      BY <1>2, <3>1, TransitionsTyped
  <2>3. /\ next.status = "RETRYABLE"
        /\ next.stateVersion = r.stateVersion + 1
        /\ next.queueMessageID = r.queueMessageID
        /\ next.attemptCount = r.attemptCount
    BY <1>2 DEF Retry, Receipts, ReceiptOf
  <2> HIDE DEF next
  <2>4. RetryAllowed(r, now, now + delay) => Outcome(r, next, FALSE)
    BY <2>2, <2>3 DEF Outcome, RetryAllowed
  <2>5. QED
    BY <2>1, <2>2, <2>4 DEF delay, next
<1>7. CASE \E validRequestID \in BOOLEAN :
             /\ Requested(p, TRUE)
             /\ Become(w, PutOutcome(w, finishAllowed(r) /\ validRequestID, Success(r), 0))
  <2>1. PICK valid \in BOOLEAN :
          /\ Requested(p, TRUE)
          /\ Become(w, PutOutcome(w, finishAllowed(r) /\ valid, Success(r), 0))
    BY <1>7
  <2> DEFINE allowed == finishAllowed(r) /\ valid
  <2>2. /\ allowed \in BOOLEAN
        /\ allowed => Outcome(r, Success(r), TRUE)
    BY <1>5
  <2>3. Become(w, PutOutcome(w, allowed, Success(r), 0))
    BY <2>1
  <2> HIDE DEF allowed
  <2>4. \/ Become(w, DeadLetter(w, "PROVIDER_PROTOCOL_UNKNOWN"))
        \/ \E n \in Receipts, d \in Nat :
             Outcome(r, n, TRUE) /\ Become(w, CommitState(w, n, d))
    BY <1>4, <1>5, <2>2, <2>3
  <2>5. QED
    BY <2>1, <2>4
<1>8. CASE /\ Requested(p, TRUE)
           /\ Become(w, PutOutcome(w, finishAllowed(r), MarkUnknown(r), 0))
  BY <1>4, <1>5, <1>8 DEF finishAllowed
<1>9. CASE \E retryAfter \in RetryAfters :
              LET delay == retryDelay(r, retryAfter, Seed[p]) IN
              /\ Requested(p, FALSE)
              /\ Become(w, PutOutcome(w, RetryAllowed(r, now, now + delay),
                                      Retry(r, now + delay), delay))
  BY <1>4, <1>6, <1>9 DEF RetryAllowed
<1>10. CASE /\ Requested(p, FALSE) \/ UNCHANGED <<requests, effects>>
            /\ Become(w, PutOutcome(w, finishAllowed(r), Fail(r), 0))
  BY <1>4, <1>5, <1>10 DEF finishAllowed
<1>11. QED
  BY <1>7, <1>8, <1>9, <1>10 DEF Send

\* The same, with the refused answer among the quiet states.
LEMMA SendMoves ==
  ASSUME TypeInv, NEW w \in Workers, Send(w)
  PROVE  LET p == Path(w) IN
         \E accepted \in BOOLEAN :
           /\ \/ Requested(p, accepted)
              \/ ~accepted /\ UNCHANGED <<requests, effects>>
           /\ \/ Moves(w, Quiet)
              \/ \E next \in Receipts, delay \in Nat :
                   /\ Outcome(worker[w].stored, next, accepted)
                   /\ Become(w, CommitState(w, next, delay))
<1>1. worker[w].pc # "idle"
  BY DEF Send
<1>2. DeadLetter(w, "PROVIDER_PROTOCOL_UNKNOWN") \in Quiet
  BY <1>1, DispositionsGood DEF Reasons
<1>3. Become(w, DeadLetter(w, "PROVIDER_PROTOCOL_UNKNOWN")) => Moves(w, Quiet)
  BY <1>2 DEF Moves
<1>4. QED
  BY <1>3, SendOutcomes

------------------------------------------------------------------------------
\* The initial state is well formed (Init).
LEMMA TypeInit == Init => TypeInv
<1> SUFFICES ASSUME Init PROVE TypeInv
  OBVIOUS
<1>1. worker \in [Workers -> GoodStates] /\ worker \in [Workers -> WorkerState]
  BY IdleGood DEF Init, Quiet, GoodStates
<1>2. QED
  BY <1>1 DEF Init, TypeInv, TypeOK

\* A worker that moves to a good state keeps the function of workers good.
LEMMA MovesTyped ==
  ASSUME TypeInv, NEW w \in Workers, Moves(w, GoodStates)
  PROVE  worker' \in [Workers -> GoodStates] /\ worker' \in [Workers -> WorkerState]
<1>1. PICK s \in GoodStates : worker' = [worker EXCEPT ![w] = s]
  BY DEF Moves, Become
<1>2. worker' \in [Workers -> GoodStates]
  BY <1>1 DEF TypeInv
<1>3. QED
  BY <1>2 DEF GoodStates

\* Every step keeps the state well formed (Next).
LEMMA TypeStep == TypeInv /\ [Next]_vars => TypeInv'
<1> SUFFICES ASSUME TypeInv, [Next]_vars PROVE TypeInv'
  OBVIOUS
<1> USE DEF TypeInv, TypeOK
<1>q. ASSUME NEW w \in Workers, Moves(w, Quiet) PROVE Moves(w, GoodStates)
  BY <1>q DEF Moves, Quiet
<1>r. ASSUME NEW p \in Paths, NEW r \in Receipts, ReplaceReceipt(p, r)
      PROVE  /\ receipts' \in [Paths -> Receipts \cup {NoReceipt}]
             /\ etags' \in [Paths -> Nat]
  BY <1>r DEF ReplaceReceipt
<1>1. ASSUME NEW w \in Workers, NEW e \in Entries, Receive(w, e) PROVE TypeInv'
  <2>1. Moves(w, GoodStates)
    BY <1>1, <1>q, ReceiveMoves
  <2>2. holder' \in [Entries -> Workers \cup {NoWorker}]
    BY <1>1 DEF Receive
  <2>3. QED
    BY <1>1, <2>1, <2>2, MovesTyped DEF Receive
<1>2. ASSUME NEW w \in Workers, ReadBlobs(w) PROVE TypeInv'
  BY <1>2, <1>q, ReadBlobsMoves, MovesTyped DEF ReadBlobs
<1>3. ASSUME NEW w \in Workers, ScanRow(w) PROVE TypeInv'
  BY <1>3, <1>q, ScanRowMoves, MovesTyped DEF ScanRow
<1>4. ASSUME NEW w \in Workers, GetReceipt(w) \/ GetAfterConflict(w) PROVE TypeInv'
  <2> DEFINE p == Path(w)
  <2>1. /\ worker[w].pc \in OnRow
        /\ Message(w) \in Messages
        /\ worker[w].now \in Nat
        /\ p \in Paths
        /\ etags[p] \in Nat
    BY <1>4, WorkerFacts DEF GetReceipt, GetAfterConflict, OnRow, WorkerState
  <2>2. ASSUME Become(w, Put(w, "create", NoReceipt, 0,
                             ClaimReceipt(Message(w), worker[w].now)))
        PROVE  Moves(w, GoodStates)
    <3>1. ClaimReceipt(Message(w), worker[w].now) \in Receipts
      BY <2>1, ClaimTyped
    <3>2. QED
      BY <2>1, <2>2, <3>1, PutGood DEF Moves, Steps
  <2>3. ASSUME NEW step \in Steps, NEW next \in Receipts, receipts[p] \in Receipts,
               Become(w, Put(w, step, receipts[p], etags[p], next))
        PROVE  Moves(w, GoodStates)
    BY <2>1, <2>3, PutGood DEF Moves
  <2>4. Moves(w, GoodStates)
    BY <1>4, <1>q, <2>2, <2>3, GetMoves
  <2>5. QED
    BY <1>4, <2>4, MovesTyped DEF GetReceipt, GetAfterConflict
<1>5. ASSUME NEW w \in Workers, Upload(w) PROVE TypeInv'
  <2> DEFINE p == Path(w)
  <2>1. /\ worker[w].pc = "upload" /\ worker[w].pc \in OnRow
        /\ p \in Paths
        /\ worker[w].next \in Receipts
        /\ worker[w].etag \in Nat
    BY <1>5, WorkerFacts DEF Upload, OnRow, WorkerState, ControlOK
  <2>2. Moves(w, GoodStates)
    <3>1. \A conflict \in BOOLEAN : PutFailed(w, conflict) \in GoodStates
      BY <2>1, PutFailedGood DEF Quiet
    <3>2. [worker[w] EXCEPT !.pc = "reread"] \in GoodStates
      BY <2>1, RereadStateGood
    <3>3. QED
      BY <1>5, <3>1, <3>2 DEF Upload, Moves
  <2>3. [path |-> p, etag |-> worker[w].etag, receipt |-> worker[w].next] \in Write
    BY <2>1 DEF Write
  <2>4. late' \subseteq Write
    BY <1>5, <2>3 DEF Upload
  <2>5. /\ receipts' \in [Paths -> Receipts \cup {NoReceipt}]
        /\ etags' \in [Paths -> Nat]
    BY <1>5, <1>r, <2>1 DEF Upload
  <2>6. QED
    BY <1>5, <2>2, <2>4, <2>5, MovesTyped DEF Upload
<1>6. ASSUME NEW w \in Workers, Reread(w) PROVE TypeInv'
  <2> DEFINE p == Path(w)
  <2>1. /\ worker[w].pc = "reread" /\ worker[w].pc \in OnRow
        /\ p \in Paths
        /\ worker[w].now \in Nat
        /\ etags[p] \in Nat
    BY <1>6, WorkerFacts DEF Reread, OnRow, WorkerState
  <2>2. ASSUME receipts[p] \in Receipts,
               Become(w, Put(w, "start", receipts[p], etags[p],
                             StartSend(receipts[p], worker[w].now)))
        PROVE  Moves(w, GoodStates)
    <3>1. StartSend(receipts[p], worker[w].now) \in Receipts
      BY <2>1, <2>2, TransitionsTyped
    <3>2. QED
      BY <2>1, <2>2, <3>1, PutGood DEF Moves, Steps
  <2>3. ASSUME receipts[p] \in Receipts, Become(w, SendState(w, receipts[p], etags[p]))
        PROVE  Moves(w, GoodStates)
    BY <2>1, <2>3, SendStateGood DEF Moves
  <2>4. Moves(w, GoodStates)
    BY <1>6, <1>q, <2>2, <2>3, RereadMoves
  <2>5. audits' \in [Paths -> Nat]
    <3>1. UNCHANGED audits \/ audit(p, receipts[p])
      BY <1>6 DEF Reread, Committed
    <3>2. QED
      BY <2>1, <3>1 DEF audit
  <2>6. QED
    BY <1>6, <2>4, <2>5, MovesTyped DEF Reread
<1>7. ASSUME NEW w \in Workers, Send(w) PROVE TypeInv'
  <2> DEFINE p == Path(w)
  <2>1. worker[w].pc = "send" /\ p \in Paths
    BY <1>7, WorkerFacts DEF Send, OnRow
  <2>2. ASSUME NEW next \in Receipts, NEW delay \in Nat,
               Become(w, CommitState(w, next, delay))
        PROVE  Moves(w, GoodStates)
    BY <2>1, <2>2, CommitStateGood DEF Moves
  <2>3. Moves(w, GoodStates)
    BY <1>7, <1>q, <2>2, SendMoves
  <2>4. requests' \in [Paths -> Nat] /\ effects' \in [Paths -> Nat]
    <3>1. \/ UNCHANGED <<requests, effects>>
          \/ \E accepted \in BOOLEAN : Requested(p, accepted)
      BY <1>7, SendMoves
    <3>2. QED
      BY <2>1, <3>1 DEF Requested
  <2>5. QED
    BY <1>7, <2>3, <2>4, MovesTyped DEF Send
<1>8. ASSUME NEW w \in Workers, Settle(w) PROVE TypeInv'
  <2>1. Moves(w, GoodStates)
    BY <1>8, <1>q, IdleGood DEF Settle, Moves
  <2>2. worker[w].entry \in Entries
    BY <1>8, WorkerFacts DEF Settle
  <2>3. /\ queue' \in [Entries -> {"queued", "completed", "deadlettered"}]
        /\ holder' \in [Entries -> Workers \cup {NoWorker}]
    BY <1>8, <2>2 DEF Settle
  <2>4. QED
    BY <1>8, <2>1, <2>3, MovesTyped DEF Settle
<1>9. ASSUME NEW w \in Workers, Interrupt(w) PROVE TypeInv'
  BY <1>9, <1>q, IdleGood, MovesTyped DEF Interrupt, Moves
<1>10. ASSUME NEW e \in Entries, LockExpires(e) PROVE TypeInv'
  BY <1>10 DEF LockExpires
<1>11. CASE LateUpload
  <2>1. PICK x \in late :
          /\ late' = late \ {x}
          /\ IF ETagMatches(x.path, x.etag)
             THEN ReplaceReceipt(x.path, x.receipt)
             ELSE UNCHANGED <<receipts, etags>>
    BY <1>11 DEF LateUpload
  <2>2. x.path \in Paths /\ x.receipt \in Receipts
    BY DEF Write
  <2>3. /\ receipts' \in [Paths -> Receipts \cup {NoReceipt}]
        /\ etags' \in [Paths -> Nat]
    BY <1>r, <2>1, <2>2
  <2>4. QED
    BY <1>11, <2>1, <2>3 DEF LateUpload
<1>12. CASE Tick
  BY <1>12 DEF Tick
<1>13. CASE UNCHANGED vars
  BY <1>13 DEF vars
<1>14. QED
  BY <1>1, <1>2, <1>3, <1>4, <1>5, <1>6, <1>7, <1>8, <1>9, <1>10, <1>11, <1>12, <1>13
  DEF Next, WorkerStep

(***************************************************************************)
(* Every variable keeps its type whatever the workers, the store, the      *)
(* provider and the broker do: stored receipts are well formed, attempt    *)
(* counts stay within MaxAttempts, and a worker in the middle of a row     *)
(* always has a row of the batch.                                          *)
(***************************************************************************)
THEOREM TypeCorrect == Spec => []TypeOK
<1>1. Init => TypeInv
  BY TypeInit
<1>2. TypeInv /\ [Next]_vars => TypeInv'
  BY TypeStep
<1>3. TypeInv => TypeOK
  BY DEF TypeInv
<1>4. QED
  BY <1>1, <1>2, <1>3, PTL DEF Spec

------------------------------------------------------------------------------
(***************************************************************************)
(* Deliveries end.                                                         *)
(***************************************************************************)
\* The place of a worker in its delivery (Place).
LEMMA Places ==
  ASSUME NEW s \in WorkerState
  PROVE  /\ s.pc = "blobs" => Place(s) = 0
         /\ s.pc = "row" => Place(s) = 12 * s.row
         /\ s.pc = "get" => Place(s) = 12 * s.row + 1
         /\ s.pc = "reget" => Place(s) = 12 * s.row + 4
         /\ s.pc = "send" => Place(s) = 12 * s.row + 9
         /\ s.pc = "upload" =>
              /\ s.step = "create" => Place(s) = 12 * s.row + 2
              /\ s.step \in {"exhaust", "reclaim", "recover"} => Place(s) = 12 * s.row + 5
              /\ s.step = "start" => Place(s) = 12 * s.row + 7
              /\ s.step = "commit" => Place(s) = 12 * s.row + 10
         /\ s.pc = "reread" =>
              /\ s.step = "create" => Place(s) = 12 * s.row + 3
              /\ s.step \in {"exhaust", "reclaim", "recover"} => Place(s) = 12 * s.row + 6
              /\ s.step = "start" => Place(s) = 12 * s.row + 8
              /\ s.step = "commit" => Place(s) = 12 * s.row + 11
<1>1. s.row \in Nat
  BY DEF WorkerState
<1>2. QED
  BY <1>1 DEF Place

\* A worker in the middle of a row is before the next row.
LEMMA RowPlace ==
  ASSUME TypeInv, NEW w \in Workers, worker[w].pc \in OnRow
  PROVE  /\ worker[w] \in WorkerState
         /\ worker[w].row \in Nat /\ worker[w].row <= Len(Rows[Message(w)])
         /\ Len(Rows[Message(w)]) \in Nat
         /\ Place(worker[w]) \in Nat /\ Place(worker[w]) < 12 * (worker[w].row + 1)
<1> PICK s : s = worker[w]
  OBVIOUS
<1>1. /\ s \in WorkerState /\ ControlOK(s) /\ s.pc # "idle"
      /\ Len(Rows[Message(w)]) \in Nat
  BY WorkerFacts
<1>2. s.row \in Nat /\ s.row <= Len(Rows[Message(w)])
  BY <1>1 DEF ControlOK, WorkerState, Message
<1>3. s.pc \in {"upload", "reread"} => s.step \in Steps
  BY <1>1 DEF ControlOK
<1>4. Place(s) \in Nat /\ Place(s) < 12 * s.row + 12
  <2>1. CASE s.pc \in {"get", "reget", "send"}
    BY <1>1, <1>2, <2>1, Places
  <2>2. CASE s.pc \in {"upload", "reread"}
    <3>1. \E n \in 2..11 : Place(s) = 12 * s.row + n
      <4>1. CASE s.pc = "upload"
        BY <1>1, <1>3, <4>1, Places DEF Steps
      <4>2. CASE s.pc = "reread"
        BY <1>1, <1>3, <4>2, Places DEF Steps
      <4>3. QED
        BY <2>2, <4>1, <4>2
    <3>2. QED
      BY <1>2, <3>1
  <2>3. QED
    BY <2>1, <2>2 DEF OnRow
<1>5. QED
  BY <1>1, <1>2, <1>4

\* Process returns (Verdict).
LEMMA VerdictGoesOn ==
  ASSUME NEW w \in Workers, worker[w].pc \notin {"idle", "settle"},
         NEW disposition, NEW reason, NEW wait
  PROVE  LET s == Verdict(w, disposition, reason, wait) IN
         /\ GoesOn(worker[w], s)
         /\ \A fault : GoesOn(worker[w], [s EXCEPT !.fault = fault])
         /\ \A r : GoesOn(worker[w], [s EXCEPT !.stored = r])
<1> DEFINE s == Verdict(w, disposition, reason, wait)
<1>1. s.pc = "settle" /\ s.entry = worker[w].entry
  BY DEF Verdict, Idle
<1>2. \A fault : /\ [s EXCEPT !.fault = fault].pc = "settle"
                 /\ [s EXCEPT !.fault = fault].entry = worker[w].entry
  BY DEF Verdict, Idle
<1>3. \A r : /\ [s EXCEPT !.stored = r].pc = "settle"
             /\ [s EXCEPT !.stored = r].entry = worker[w].entry
  BY DEF Verdict, Idle
<1> HIDE DEF s
<1>4. QED
  BY <1>1, <1>2, <1>3 DEF GoesOn, s

\* The three verdicts.
LEMMA DispositionsGoOn ==
  ASSUME NEW w \in Workers, worker[w].pc \notin {"idle", "settle"}
  PROVE  /\ GoesOn(worker[w], Complete(w))
         /\ \A reason, fault : /\ GoesOn(worker[w], DeadLetter(w, reason))
                               /\ GoesOn(worker[w], [DeadLetter(w, reason) EXCEPT !.fault = fault])
         /\ \A reason, wait, r, fault :
              /\ GoesOn(worker[w], Abandon(w, reason, wait))
              /\ GoesOn(worker[w], [Abandon(w, reason, wait) EXCEPT !.fault = fault])
              /\ GoesOn(worker[w], [Abandon(w, reason, wait) EXCEPT !.stored = r])
  BY VerdictGoesOn DEF Complete, DeadLetter, Abandon

\* A worker that stays at its row, further on in it.
LEMMA SameRowGoesOn ==
  ASSUME TypeInv, NEW w \in Workers, worker[w].pc \in OnRow, NEW s \in WorkerState,
         s.pc \in OnRow, s.entry = worker[w].entry, s.row = worker[w].row,
         Place(worker[w]) < Place(s), Place(s) < 12 * s.row + 12, Place(s) \in Nat
  PROVE  GoesOn(worker[w], s)
<1>1. Rows[Body[s.entry]] = Rows[Message(w)]
  BY DEF Message
<1>2. s.row \in Nat /\ s.row <= Len(Rows[Message(w)]) /\ Len(Rows[Message(w)]) \in Nat
  BY RowPlace
<1>3. Place(s) <= 12 * (Len(Rows[Message(w)]) + 1)
  BY <1>2
<1>4. QED
  BY <1>1, <1>3 DEF GoesOn

\* A delivered row is followed by the next one (AtRow).
LEMMA NextRowGoesOn ==
  ASSUME TypeInv, NEW w \in Workers, worker[w].pc \in OnRow
  PROVE  GoesOn(worker[w], AtRow(w, worker[w].row + 1))
<1> PICK s : s = AtRow(w, worker[w].row + 1)
  OBVIOUS
<1>1. /\ worker[w].row \in Nat /\ worker[w].row <= Len(Rows[Message(w)])
      /\ Len(Rows[Message(w)]) \in Nat
      /\ Place(worker[w]) < 12 * (worker[w].row + 1)
  BY RowPlace
<1>2. worker[w].pc # "idle"
  BY DEF OnRow
<1>3. s \in WorkerState
  BY <1>1, <1>2, AtRowGood DEF Quiet, GoodStates
<1>4. s.pc = "row" /\ s.entry = worker[w].entry /\ s.row = worker[w].row + 1
  BY DEF AtRow, Idle
<1>5. Place(s) = 12 * (worker[w].row + 1)
  BY <1>3, <1>4, Places
<1>6. Place(s) <= 12 * (Len(Rows[Body[s.entry]]) + 1)
  BY <1>1, <1>4, <1>5 DEF Message
<1>7. QED
  BY <1>1, <1>4, <1>5, <1>6 DEF GoesOn

\* The writes of a row, in the order in which they can follow one another.
NextWrite(s, step) ==
  \/ s.pc = "get" /\ step \in Steps \ {"start", "commit"}
  \/ s.pc = "reget" /\ step \in {"exhaust", "reclaim", "recover"}
  \/ s.pc = "reread" /\ s.step \in {"create", "reclaim", "recover"} /\ step = "start"
  \/ s.pc = "send" /\ step = "commit"

\* A write is begun (Put, PutOutcome).
LEMMA PutGoesOn ==
  ASSUME TypeInv, NEW w \in Workers, worker[w].pc \in OnRow,
         NEW step \in Steps, NextWrite(worker[w], step),
         NEW r \in Receipts \cup {NoReceipt}, NEW etag \in Nat, NEW next \in Receipts,
         NEW delay \in Nat
  PROVE  /\ GoesOn(worker[w], Put(w, step, r, etag, next))
         /\ GoesOn(worker[w], [Put(w, step, r, etag, next) EXCEPT !.delay = delay])
<1> PICK u : u = worker[w]
  OBVIOUS
<1>1. u \in WorkerState /\ u.row \in Nat
  BY RowPlace
<1>2. ASSUME NEW s \in WorkerState, s.pc = "upload", s.step = step,
             s.entry = u.entry, s.row = u.row
      PROVE  GoesOn(u, s)
  <2>1. Place(s) \in Nat /\ Place(s) < 12 * s.row + 12
    BY <1>1, <1>2, Places, SMTT(30) DEF Steps
  <2>2. Place(u) < Place(s)
    <3>1. CASE u.pc = "get" /\ step \in Steps \ {"start", "commit"}
      <4>1. Place(u) = 12 * u.row + 1
        BY <1>1, <3>1, Places
      <4>2. Place(s) \in {12 * u.row + 2, 12 * u.row + 5}
        BY <1>2, <3>1, Places DEF Steps
      <4>3. QED
        BY <1>1, <4>1, <4>2
    <3>2. CASE u.pc = "reget" /\ step \in {"exhaust", "reclaim", "recover"}
      <4>1. Place(u) = 12 * u.row + 4 /\ Place(s) = 12 * u.row + 5
        BY <1>1, <1>2, <3>2, Places
      <4>2. QED
        BY <1>1, <4>1
    <3>3. CASE u.pc = "reread" /\ u.step \in {"create", "reclaim", "recover"} /\ step = "start"
      <4>1. Place(u) \in {12 * u.row + 3, 12 * u.row + 6}
        BY <1>1, <3>3, Places
      <4>2. Place(s) = 12 * u.row + 7
        BY <1>2, <3>3, Places
      <4>3. QED
        BY <1>1, <4>1, <4>2
    <3>4. CASE u.pc = "send" /\ step = "commit"
      <4>1. Place(u) = 12 * u.row + 9 /\ Place(s) = 12 * u.row + 10
        BY <1>1, <1>2, <3>4, Places
      <4>2. QED
        BY <1>1, <4>1
    <3>5. QED
      BY <3>1, <3>2, <3>3, <3>4 DEF NextWrite
  <2>3. s.pc \in OnRow
    BY <1>2 DEF OnRow
  <2>4. QED
    BY <1>2, <2>1, <2>2, <2>3, SameRowGoesOn
<1> DEFINE s == Put(w, step, r, etag, next)
           t == [s EXCEPT !.delay = delay]
<1>3. /\ s \in WorkerState /\ s.pc = "upload" /\ s.step = step
      /\ s.entry = u.entry /\ s.row = u.row
  <2>1. s \in WorkerState
    BY PutGood DEF GoodStates
  <2>2. QED
    BY <1>1, <2>1 DEF Put, WorkerState
<1> HIDE DEF s
<1>4. /\ t \in WorkerState /\ t.pc = "upload" /\ t.step = step
      /\ t.entry = u.entry /\ t.row = u.row
  BY <1>3 DEF WorkerState
<1> HIDE DEF t
<1>5. GoesOn(u, s) /\ GoesOn(u, t)
  BY <1>2, <1>3, <1>4
<1>6. QED
  BY <1>5 DEF s, t

\* The write failed, or is not known to have been applied (PutFailed).
LEMMA PutFailedGoesOn ==
  ASSUME TypeInv, NEW w \in Workers, worker[w].pc \in {"upload", "reread"},
         NEW conflict \in BOOLEAN
  PROVE  GoesOn(worker[w], PutFailed(w, conflict))
<1> PICK u : u = worker[w]
  OBVIOUS
<1>1. u.pc \in OnRow /\ u.pc \notin {"idle", "settle"}
  BY DEF OnRow
<1>2. u \in WorkerState /\ u.row \in Nat
  BY <1>1, RowPlace
<1>3. CASE u.step = "create" /\ conflict
  <2> PICK s : s = PutFailed(w, conflict)
    OBVIOUS
  <2>1. s \in WorkerState
    BY <1>1, PutFailedGood DEF Quiet, GoodStates
  <2>2. s.pc = "reget" /\ s.entry = u.entry /\ s.row = u.row
    BY <1>3 DEF PutFailed, Idle
  <2>3. Place(s) = 12 * u.row + 4
    BY <2>1, <2>2, Places
  <2>4. Place(u) \in {12 * u.row + 2, 12 * u.row + 3}
    BY <1>2, <1>3, Places
  <2>5. /\ Place(u) < Place(s) /\ Place(s) < 12 * s.row + 12 /\ Place(s) \in Nat
        /\ s.pc \in OnRow
    BY <1>2, <2>2, <2>3, <2>4 DEF OnRow
  <2>6. QED
    BY <1>1, <2>1, <2>2, <2>5, SameRowGoesOn
<1>4. CASE ~(u.step = "create" /\ conflict)
  BY <1>1, <1>4, DispositionsGoOn DEF PutFailed
<1>5. QED
  BY <1>3, <1>4

\* The upload was applied (Upload).
LEMMA RereadGoesOn ==
  ASSUME TypeInv, NEW w \in Workers, worker[w].pc = "upload"
  PROVE  GoesOn(worker[w], [worker[w] EXCEPT !.pc = "reread"])
<1> PICK u : u = worker[w]
  OBVIOUS
<1> PICK s : s = [u EXCEPT !.pc = "reread"]
  OBVIOUS
<1>1. u.pc \in OnRow /\ u \in WorkerState /\ u.row \in Nat /\ u.step \in Steps
  <2>1. u.pc \in OnRow
    BY DEF OnRow
  <2>2. QED
    BY <2>1, RowPlace, WorkerFacts DEF ControlOK
<1>2. s \in WorkerState /\ s.pc = "reread" /\ s.step = u.step /\ s.entry = u.entry /\ s.row = u.row
  BY <1>1 DEF WorkerState
<1>3. \E n \in {2, 5, 7, 10} : Place(u) = 12 * u.row + n /\ Place(s) = 12 * u.row + n + 1
  <2>1. CASE u.step = "create"
    <3>1. Place(u) = 12 * u.row + 2 /\ Place(s) = 12 * u.row + 3
      BY <1>1, <1>2, <2>1, Places
    <3>2. QED
      BY <1>1, <3>1
  <2>2. CASE u.step \in {"exhaust", "reclaim", "recover"}
    <3>1. Place(u) = 12 * u.row + 5 /\ Place(s) = 12 * u.row + 6
      BY <1>1, <1>2, <2>2, Places
    <3>2. QED
      BY <1>1, <3>1
  <2>3. CASE u.step = "start"
    <3>1. Place(u) = 12 * u.row + 7 /\ Place(s) = 12 * u.row + 8
      BY <1>1, <1>2, <2>3, Places
    <3>2. QED
      BY <1>1, <3>1
  <2>4. CASE u.step = "commit"
    <3>1. Place(u) = 12 * u.row + 10 /\ Place(s) = 12 * u.row + 11
      BY <1>1, <1>2, <2>4, Places
    <3>2. QED
      BY <1>1, <3>1
  <2>5. QED
    BY <1>1, <2>1, <2>2, <2>3, <2>4 DEF Steps
<1>4. /\ Place(u) < Place(s) /\ Place(s) < 12 * s.row + 12 /\ Place(s) \in Nat
      /\ s.pc \in OnRow
  BY <1>1, <1>2, <1>3 DEF OnRow
<1>5. QED
  BY <1>1, <1>2, <1>4, SameRowGoesOn

\* A worker that goes on with its delivery.
OnItsWay(w) == \E s : Become(w, s) /\ GoesOn(worker[w], s)

\* The blobs of the delivery are read, or are not (ReadBlobs).
LEMMA ReadBlobsGoesOn ==
  ASSUME TypeInv, NEW w \in Workers, ReadBlobs(w)
  PROVE  worker[w].pc \notin {"idle", "settle"} /\ OnItsWay(w)
<1>1. worker[w].pc = "blobs" /\ worker[w].pc \notin {"idle", "settle"}
  BY DEF ReadBlobs
<1>2. GoesOn(worker[w], AtRow(w, 1))
  <2> PICK s : s = AtRow(w, 1)
    OBVIOUS
  <2>1. s \in WorkerState
    BY <1>1, AtRowGood DEF Quiet, GoodStates
  <2>2. s.pc = "row" /\ s.entry = worker[w].entry /\ s.row = 1
    BY DEF AtRow, Idle
  <2>3. Place(s) = 12
    BY <2>1, <2>2, Places
  <2>4. Place(worker[w]) = 0
    BY <1>1, WorkerFacts, Places
  <2>5. Len(Rows[Body[s.entry]]) \in Nat
    BY <1>1, <2>2, WorkerFacts DEF Message
  <2>6. Place(s) <= 12 * (Len(Rows[Body[s.entry]]) + 1)
    BY <2>3, <2>5
  <2>7. QED
    BY <2>2, <2>3, <2>4, <2>6 DEF GoesOn
<1>3. \A check \in BlobChecks, fault \in Faults : GoesOn(worker[w], BlobVerdict(w, check, fault))
  BY <1>1, DispositionsGoOn DEF BlobVerdict
<1>4. QED
  BY <1>1, <1>2, <1>3, DispositionsGoOn DEF ReadBlobs, OnItsWay

\* The batch has another row, or none (ScanRow).
LEMMA ScanRowGoesOn ==
  ASSUME TypeInv, NEW w \in Workers, ScanRow(w)
  PROVE  worker[w].pc \notin {"idle", "settle"} /\ OnItsWay(w)
<1> PICK u : u = worker[w]
  OBVIOUS
<1>1. u.pc = "row" /\ u.pc \notin {"idle", "settle"}
  BY DEF ScanRow
<1>2. u \in WorkerState /\ u.row \in Nat /\ Len(Rows[Message(w)]) \in Nat /\ clock \in Nat
  BY <1>1, WorkerFacts DEF WorkerState, TypeInv, TypeOK
<1>3. ASSUME u.row <= Len(Rows[Message(w)])
      PROVE  GoesOn(u, [u EXCEPT !.pc = "get", !.now = clock])
  <2> PICK s : s = [u EXCEPT !.pc = "get", !.now = clock]
    OBVIOUS
  <2>1. s \in WorkerState /\ s.pc = "get" /\ s.entry = u.entry /\ s.row = u.row
    BY <1>2 DEF WorkerState
  <2>2. Place(u) = 12 * u.row /\ Place(s) = 12 * u.row + 1
    BY <1>1, <1>2, <2>1, Places
  <2>3. Place(u) < Place(s) /\ Place(s) <= 12 * (Len(Rows[Message(w)]) + 1)
    BY <1>2, <1>3, <2>2
  <2>4. QED
    BY <2>1, <2>3 DEF GoesOn, OnRow, Message
<1>4. GoesOn(u, Complete(w)) /\ \A fault \in Faults :
        GoesOn(u, [DeadLetter(w, "REFERENCED_BLOB_INVALID") EXCEPT !.fault = fault])
  BY <1>1, DispositionsGoOn
<1>5. QED
  BY <1>1, <1>3, <1>4 DEF ScanRow, OnItsWay

\* What is done with the receipt that was found (Examine).
LEMMA ExamineGoesOn ==
  ASSUME TypeInv, NEW w \in Workers, worker[w].pc \in {"get", "reget"},
         NEW r \in Receipts, NEW etag \in Nat, Examine(w, r, etag)
  PROVE  OnItsWay(w)
<1> DEFINE now == worker[w].now
<1>1. worker[w].pc \in OnRow /\ worker[w].pc \notin {"idle", "settle"} /\ now \in Nat
  <2>1. worker[w].pc \in OnRow
    BY DEF OnRow
  <2>2. QED
    BY <2>1, RowPlace DEF WorkerState
<1>2. ASSUME NEW step \in {"exhaust", "reclaim", "recover"}, NEW next \in Receipts,
             Become(w, Put(w, step, r, etag, next))
      PROVE  OnItsWay(w)
  <2>1. step \in Steps /\ NextWrite(worker[w], step)
    BY <1>2 DEF Steps, NextWrite
  <2>2. GoesOn(worker[w], Put(w, step, r, etag, next))
    BY <1>1, <2>1, PutGoesOn
  <2>3. QED
    BY <1>2, <2>2 DEF OnItsWay
<1>3. CASE Become(w, Put(w, "exhaust", r, etag, Exhaust(r)))
  BY <1>1, <1>2, <1>3, TransitionsTyped
<1>4. CASE ReclaimAllowed(r, now) /\ Become(w, Put(w, "reclaim", r, etag, Reclaim(r, now)))
  BY <1>1, <1>2, <1>4, TransitionsTyped
<1>5. CASE RecoverStaleAllowed(r, now) /\ Become(w, Put(w, "recover", r, etag, RecoverStale(r, now)))
  BY <1>1, <1>2, <1>5, TransitionsTyped
<1>6. CASE Become(w, AtRow(w, worker[w].row + 1))
  BY <1>1, <1>6, NextRowGoesOn DEF OnItsWay
<1>7. CASE \/ \E reason : Become(w, DeadLetter(w, reason))
           \/ \E reason, wait : Become(w, Abandon(w, reason, wait))
           \/ \E reason, wait : Become(w, [Abandon(w, reason, wait) EXCEPT !.stored = r])
  BY <1>1, <1>7, DispositionsGoOn DEF OnItsWay
<1>8. QED
  BY <1>3, <1>4, <1>5, <1>6, <1>7 DEF Examine

\* The receipt of the row is read (GetReceipt, GetAfterConflict).
LEMMA GetGoesOn ==
  ASSUME TypeInv, NEW w \in Workers, GetReceipt(w) \/ GetAfterConflict(w)
  PROVE  worker[w].pc \notin {"idle", "settle"} /\ OnItsWay(w)
<1> PICK p : p = Path(w)
  OBVIOUS
<1>1. /\ worker[w].pc \in {"get", "reget"} /\ worker[w].pc \in OnRow
      /\ worker[w].pc \notin {"idle", "settle"}
  BY DEF GetReceipt, GetAfterConflict, OnRow
<1>2. /\ p \in Paths /\ Message(w) \in Messages /\ worker[w].now \in Nat
      /\ etags[p] \in Nat /\ receipts[p] \in Receipts \cup {NoReceipt}
  BY <1>1, WorkerFacts DEF WorkerState, TypeInv, TypeOK
<1>3. CASE receipts[p] # NoReceipt /\ Examine(w, receipts[p], etags[p])
  BY <1>1, <1>2, <1>3, ExamineGoesOn
<1>4. CASE \E reason : Become(w, Abandon(w, reason, TicksPerSecond))
  BY <1>1, <1>4, DispositionsGoOn DEF OnItsWay
<1>5. CASE /\ worker[w].pc = "get"
           /\ Become(w, Put(w, "create", NoReceipt, 0, ClaimReceipt(Message(w), worker[w].now)))
  <2>1. "create" \in Steps /\ NextWrite(worker[w], "create")
    BY <1>5 DEF Steps, NextWrite
  <2>2. QED
    BY <1>1, <1>2, <1>5, <2>1, ClaimTyped, PutGoesOn DEF OnItsWay
<1>6. QED
  BY <1>1, <1>3, <1>4, <1>5 DEF GetReceipt, GetAfterConflict

\* The write is known to be stored, or is not (Reread, Committed).
LEMMA CommittedGoesOn ==
  ASSUME TypeInv, NEW w \in Workers, Reread(w)
  PROVE  worker[w].pc \notin {"idle", "settle"} /\ OnItsWay(w)
<1> PICK p : p = Path(w)
  OBVIOUS
<1> PICK u : u = worker[w]
  OBVIOUS
<1>1. u.pc = "reread" /\ u.pc \in OnRow /\ u.pc \notin {"idle", "settle"}
  BY DEF Reread, OnRow
<1>2. /\ p \in Paths /\ u \in WorkerState /\ u.now \in Nat /\ u.row \in Nat
      /\ etags[p] \in Nat /\ receipts[p] \in Receipts \cup {NoReceipt}
  BY <1>1, WorkerFacts DEF WorkerState, TypeInv, TypeOK
<1>3. CASE Become(w, PutFailed(w, TRUE))
  BY <1>1, <1>3, PutFailedGoesOn DEF OnItsWay
<1>4. ASSUME receipts[p] # NoReceipt, u.step \in {"create", "reclaim", "recover"},
             Become(w, PutStart(w, receipts[p], etags[p]))
      PROVE  OnItsWay(w)
  <2>1. "start" \in Steps /\ NextWrite(u, "start")
    BY <1>1, <1>4 DEF Steps, NextWrite
  <2>2. receipts[p] \in Receipts /\ StartSend(receipts[p], u.now) \in Receipts
    BY <1>2, <1>4, TransitionsTyped
  <2>3. GoesOn(u, Put(w, "start", receipts[p], etags[p], StartSend(receipts[p], u.now)))
    BY <1>1, <1>2, <2>1, <2>2, PutGoesOn
  <2>4. GoesOn(u, PutStart(w, receipts[p], etags[p]))
    BY <1>1, <2>3, DispositionsGoOn DEF PutStart
  <2>5. QED
    BY <1>4, <2>4 DEF OnItsWay
<1>5. ASSUME receipts[p] # NoReceipt, u.step = "start",
             Become(w, SendState(w, receipts[p], etags[p]))
      PROVE  OnItsWay(w)
  <2> PICK s : s = SendState(w, receipts[p], etags[p])
    OBVIOUS
  <2>1. s \in WorkerState
    BY <1>1, <1>2, <1>5, SendStateGood DEF GoodStates
  <2>2. s.pc = "send" /\ s.entry = u.entry /\ s.row = u.row
    BY <1>2 DEF SendState, WorkerState
  <2>3. Place(u) = 12 * u.row + 8
    BY <1>1, <1>2, <1>5, Places
  <2>4. Place(s) = 12 * u.row + 9
    BY <2>1, <2>2, Places
  <2>5. /\ Place(u) < Place(s) /\ Place(s) < 12 * s.row + 12 /\ Place(s) \in Nat
        /\ s.pc \in OnRow
    BY <1>2, <2>2, <2>3, <2>4 DEF OnRow
  <2>6. GoesOn(u, s)
    BY <1>1, <2>1, <2>2, <2>5, SameRowGoesOn
  <2>7. QED
    BY <1>5, <2>6 DEF OnItsWay
<1>6. CASE Become(w, AtRow(w, u.row + 1))
  BY <1>1, <1>6, NextRowGoesOn DEF OnItsWay
<1>7. CASE \/ \E reason : Become(w, DeadLetter(w, reason))
           \/ \E reason, wait, r : Become(w, [Abandon(w, reason, wait) EXCEPT !.stored = r])
  BY <1>1, <1>7, DispositionsGoOn DEF OnItsWay
<1>8. ASSUME receipts[p] # NoReceipt, Committed(w, receipts[p], etags[p]) PROVE OnItsWay(w)
  BY <1>4, <1>5, <1>6, <1>7, <1>8 DEF Committed, SendState
<1>9. QED
  BY <1>1, <1>3, <1>8 DEF Reread

\* The provider has answered, or has not (Send).
LEMMA SendGoesOn ==
  ASSUME TypeInv, NEW w \in Workers, Send(w)
  PROVE  worker[w].pc \notin {"idle", "settle"} /\ OnItsWay(w)
<1>1. /\ worker[w].pc = "send" /\ worker[w].pc \in OnRow
      /\ worker[w].pc \notin {"idle", "settle"}
  BY DEF Send, OnRow
<1>2. "commit" \in Steps /\ NextWrite(worker[w], "commit")
  BY <1>1 DEF Steps, NextWrite
<1>3. worker[w].stored \in Receipts /\ worker[w].etag \in Nat
  BY <1>1, WorkerFacts DEF ControlOK, WorkerState
<1>4. ASSUME NEW next \in Receipts, NEW delay \in Nat, Become(w, CommitState(w, next, delay))
      PROVE  OnItsWay(w)
  <2>1. GoesOn(worker[w], CommitState(w, next, delay))
    BY <1>1, <1>2, <1>3, PutGoesOn DEF CommitState
  <2>2. QED
    BY <1>4, <2>1 DEF OnItsWay
<1>5. CASE Become(w, DeadLetter(w, "PROVIDER_PROTOCOL_UNKNOWN"))
  BY <1>1, <1>5, DispositionsGoOn DEF OnItsWay
<1>6. QED
  BY <1>1, <1>4, <1>5, SendOutcomes

\* A worker that goes on takes a step of DeliveriesAdvance.
LEMMA OnItsWayAdvances ==
  ASSUME TypeInv, NEW w \in Workers, OnItsWay(w), NEW v \in Workers, worker'[v] # worker[v]
  PROVE  GoesOn(worker[v], worker'[v]) /\ v = w
BY DEF OnItsWay, Become, TypeInv

\* Every step of the system keeps a delivery on its way (Next).
LEMMA StepGoesOn ==
  ASSUME TypeInv, [Next]_vars, NEW v \in Workers, worker'[v] # worker[v]
  PROVE  \/ worker[v].pc = "idle" /\ worker'[v].pc = "blobs"
         \/ worker[v].pc # "idle" /\ worker'[v] = Idle
         \/ worker[v].pc \notin {"idle", "settle"} /\ GoesOn(worker[v], worker'[v])
<1> DEFINE Goal == \/ worker[v].pc = "idle" /\ worker'[v].pc = "blobs"
                   \/ worker[v].pc # "idle" /\ worker'[v] = Idle
                   \/ worker[v].pc \notin {"idle", "settle"} /\ GoesOn(worker[v], worker'[v])
<1>t. worker \in [Workers -> GoodStates]
  BY DEF TypeInv
<1>g. ASSUME NEW w \in Workers, OnItsWay(w), worker[w].pc \notin {"idle", "settle"} PROVE Goal
  BY <1>g, OnItsWayAdvances
<1>1. ASSUME NEW w \in Workers, NEW e \in Entries, Receive(w, e) PROVE Goal
  BY <1>t, <1>1 DEF Receive, Become, Idle
<1>2. ASSUME NEW w \in Workers, ReadBlobs(w) PROVE Goal
  BY <1>g, <1>2, ReadBlobsGoesOn
<1>3. ASSUME NEW w \in Workers, ScanRow(w) PROVE Goal
  BY <1>g, <1>3, ScanRowGoesOn
<1>4. ASSUME NEW w \in Workers, GetReceipt(w) \/ GetAfterConflict(w) PROVE Goal
  BY <1>g, <1>4, GetGoesOn
<1>5. ASSUME NEW w \in Workers, Upload(w) PROVE Goal
  <2>1. worker[w].pc = "upload" /\ worker[w].pc \in OnRow
    BY <1>5 DEF Upload, OnRow
  <2>2. OnItsWay(w)
    BY <1>5, <2>1, RereadGoesOn, PutFailedGoesOn DEF Upload, OnItsWay
  <2>3. QED
    BY <1>g, <2>1, <2>2
<1>6. ASSUME NEW w \in Workers, Reread(w) PROVE Goal
  BY <1>g, <1>6, CommittedGoesOn
<1>7. ASSUME NEW w \in Workers, Send(w) PROVE Goal
  BY <1>g, <1>7, SendGoesOn
<1>8. ASSUME NEW w \in Workers, Settle(w) \/ Interrupt(w) PROVE Goal
  BY <1>t, <1>8 DEF Settle, Interrupt, Become
<1>9. CASE \/ \E e \in Entries : LockExpires(e)
           \/ LateUpload \/ Tick \/ UNCHANGED vars
  BY <1>9 DEF LockExpires, LateUpload, Tick, vars
<1>10. QED
  BY <1>1, <1>2, <1>3, <1>4, <1>5, <1>6, <1>7, <1>8, <1>9 DEF Next, WorkerStep

\* For every set of workers, entries and messages and every length of batch: a
\* delivery goes forward through its rows and through the writes of each row, to a
\* last place that the length of its batch fixes, then settles or is interrupted;
\* Process and processRecipient have no loop that a conflict, a lost answer or a
\* receipt another worker keeps changing could hold them in.
THEOREM DeliveriesEnd == Spec => DeliveriesAdvance
<1>1. TypeInv /\ [Next]_vars =>
        [\A w \in Workers : worker'[w] # worker[w] =>
           \/ worker[w].pc = "idle" /\ worker'[w].pc = "blobs"
           \/ worker[w].pc # "idle" /\ worker'[w] = Idle
           \/ worker[w].pc \notin {"idle", "settle"} /\ GoesOn(worker[w], worker'[w])]_vars
  BY StepGoesOn
<1>2. QED
  BY <1>1, TypeInit, TypeStep, PTL DEF Spec, DeliveriesAdvance
==============================================================================
