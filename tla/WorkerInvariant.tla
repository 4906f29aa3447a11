--------------------------- MODULE WorkerInvariant ---------------------------
(***************************************************************************)
(* The inductive invariant behind the safety properties of Worker.         *)
(*                                                                         *)
(* The properties speak of stored receipts and of the provider; they hold  *)
(* because of what a worker knows in the middle of a row, which is what    *)
(* the invariant states: a write that may still be applied is harmless     *)
(* when its ETag is current, and at most one worker can call the provider  *)
(* on the strength of one SEND_STARTED version.                            *)
(***************************************************************************)
EXTENDS Worker

\* Where a worker is in the middle of a row.
OnRow == {"get", "reget", "upload", "reread", "send"}

(***************************************************************************)
(* What the control state of a worker says about its other fields.         *)
(***************************************************************************)
ControlOK(s) ==
  /\ s.pc # "idle" => s.entry \in Entries
  /\ s.pc = "row" => s.row > 0
  /\ s.pc \in OnRow => s.row \in 1..Len(Rows[Body[s.entry]])
  /\ s.pc \in {"upload", "reread"} => s.next \in Receipts /\ s.step \in Steps
  /\ s.pc = "send" => s.stored \in Receipts

GoodStates == {s \in WorkerState : ControlOK(s)}

TypeInv == TypeOK /\ worker \in [Workers -> GoodStates]

\* The ETag and the version in the receipt count the same writes.
VersionIsETag ==
  \A p \in Paths : etags[p] = IF Exists(p) THEN receipts[p].stateVersion ELSE 0

\* w can still call the provider, on the strength of one SEND_STARTED version.
HasTicket(w) ==
  \/ worker[w].pc = "reread" /\ worker[w].step = "start"
  \/ worker[w].pc = "send"

Ticket(w) ==
  IF worker[w].pc = "send" THEN worker[w].etag ELSE worker[w].next.stateVersion

MaySend(w, p, v) == HasTicket(w) /\ Path(w) = p /\ Ticket(w) = v

(***************************************************************************)
(* Storing next over the current receipt of p is a transition of the       *)
(* journal that agrees with what the provider has seen.                    *)
(***************************************************************************)
Follows(p, next) ==
  /\ IF Exists(p)
     THEN /\ ~terminal(receipts[p])
          /\ next.attemptCount >= receipts[p].attemptCount
          /\ next.queueMessageID = receipts[p].queueMessageID
     ELSE next.status = "CLAIMED"
  /\ next.status = "CLAIMED" =>
       /\ Exists(p) => receipts[p].status \in {"CLAIMED", "RETRYABLE"}
       /\ requests[p] < next.attemptCount
  /\ next.status = "SEND_STARTED" => receipts[p].status = "CLAIMED"
  /\ next.status = "UNKNOWN" =>
       /\ receipts[p].status = "SEND_STARTED"
       /\ next.attemptCount = receipts[p].attemptCount
  /\ next.status \in {"RETRYABLE", "FAILED"} =>
       receipts[p].status \in {"SEND_STARTED", "RETRYABLE"} /\ effects[p] = 0
  /\ next.status \in Delivered =>
       receipts[p].status = "SEND_STARTED" /\ effects[p] = 1

(***************************************************************************)
(* A write that may still be applied.  If its ETag is current it follows   *)
(* the stored receipt, and if it records how a send ended then no worker   *)
(* can still make that send.                                               *)
(***************************************************************************)
GoodWrite(p, etag, next) ==
  /\ etag <= etags[p]
  /\ next.stateVersion = etag + 1
  /\ etag = etags[p] =>
       /\ Follows(p, next)
       /\ next.status \in {"RETRYABLE", "FAILED", "ACCEPTED", "SIMULATED"} =>
            \A w \in Workers : ~MaySend(w, p, etag)

GoodWrites ==
  /\ \A x \in late : GoodWrite(x.path, x.etag, x.receipt)
  /\ \A w \in Workers : worker[w].pc = "upload" =>
       /\ GoodWrite(Path(w), worker[w].etag, worker[w].next)
       /\ worker[w].step = "start" => worker[w].next.status = "SEND_STARTED"

\* A write the store has applied: what is stored is that write, or a later one.
GoodReread(w) ==
  LET p == Path(w)
      v == worker[w].next.stateVersion
  IN  /\ v = worker[w].etag + 1
      /\ v <= etags[p]
      /\ v = etags[p] =>
           /\ receipts[p] = worker[w].next
           /\ worker[w].step = "start" =>
                /\ receipts[p].status = "SEND_STARTED"
                /\ effects[p] = 0
                /\ requests[p] < receipts[p].attemptCount

(***************************************************************************)
(* A worker about to call the provider: its SEND_STARTED is stored, or has *)
(* been judged stale, and no request for it has been made.                 *)
(***************************************************************************)
GoodSend(w) ==
  LET p == Path(w)
      r == worker[w].stored
  IN  /\ r.stateVersion = worker[w].etag
      /\ r.status = "SEND_STARTED"
      /\ Exists(p)
      /\ effects[p] = 0
      /\ requests[p] < r.attemptCount
      /\ receipts[p].attemptCount = r.attemptCount
      /\ \/ etags[p] = worker[w].etag /\ receipts[p] = r
         \/ etags[p] = worker[w].etag + 1 /\ receipts[p].status = "UNKNOWN"

GoodWorkers ==
  \A w \in Workers :
    /\ worker[w].pc = "reread" => GoodReread(w)
    /\ worker[w].pc = "send" => GoodSend(w)

\* One version gives at most one worker the right to send.
OneSender ==
  \A v, w \in Workers :
    /\ HasTicket(v) /\ HasTicket(w)
    /\ Path(v) = Path(w)
    /\ Ticket(v) = Ticket(w)
    => v = w

JournalInv ==
  /\ VersionIsETag
  /\ AtMostOneEffect
  /\ JournalTruthful
  /\ AttemptBudget
  /\ GoodWrites
  /\ GoodWorkers
  /\ OneSender

(***************************************************************************)
(* The inductive invariant: besides what the journal promises, it says     *)
(* what a worker in the middle of processRecipient, or a write of put that *)
(* may still be applied, can rely on.                                      *)
(***************************************************************************)
IInv == TypeInv /\ JournalInv

------------------------------------------------------------------------------
(***************************************************************************)
(* The order of a batch: whatever has a receipt of a message, or may still *)
(* be given one by a write in flight, stands at a row that the message has *)
(* reached, all rows before it being delivered.                            *)
(***************************************************************************)
DeliveredTo(p) == Exists(p) /\ receipts[p].status \in Delivered

UpTo(m, n) == \A i \in 1..n : DeliveredTo(Rows[m][i])

Reached(m, p) ==
  /\ m \in Messages \ Malformed
  /\ \E j \in 1..Len(Rows[m]) : Rows[m][j] = p /\ UpTo(m, j - 1)

\* A worker goes through the rows in order, and writes only for its message.
InOrder(s) ==
  LET m == Body[s.entry] IN
  /\ s.pc \in {"row"} \cup OnRow =>
       m \notin Malformed /\ s.row <= Len(Rows[m]) + 1 /\ UpTo(m, s.row - 1)
  /\ s.pc \in {"upload", "reread"} => s.next.queueMessageID = m
  /\ s.pc = "send" => s.stored.queueMessageID = m
  /\ s.pc = "settle" /\ s.disposition = "COMPLETE" => UpTo(m, Len(Rows[m]))

OrderInv ==
  /\ \A p \in Paths : Exists(p) => Reached(receipts[p].queueMessageID, p)
  /\ \A x \in late : Reached(x.receipt.queueMessageID, x.path)
  /\ \A w \in Workers : InOrder(worker[w])
  /\ CompletedDelivered

\* No batch names a recipient twice: the publisher removes repeated addresses.
DistinctRows ==
  \A m \in Messages \ Malformed : \A i, j \in 1..Len(Rows[m]) :
    Rows[m][i] = Rows[m][j] => i = j

(***************************************************************************)
(* Auditing: one worker reads back one version, and once a receipt has     *)
(* been audited nobody is left to audit it again.                          *)
(***************************************************************************)
ReadsBack(w, p, v) ==
  worker[w].pc = "reread" /\ Path(w) = p /\ worker[w].next.stateVersion = v

AuditInv ==
  /\ \A v, w \in Workers :
       worker[w].pc = "reread" /\ ReadsBack(v, Path(w), worker[w].next.stateVersion) => v = w
  /\ \A p \in Paths : audits[p] # 0 =>
       /\ audits[p] = 1
       /\ Exists(p) /\ terminal(receipts[p])
       /\ \A w \in Workers : ~ReadsBack(w, p, etags[p])

(***************************************************************************)
(* Retry times: a retry is never scheduled further away than MaxDelay, and *)
(* a claim of it that may still be stored was made when it was due.        *)
(***************************************************************************)
DueSoon(r) == r.status = "RETRYABLE" => r.nextAttemptAt <= clock + MaxDelay

DueWrite(p, etag, next) ==
  etag = etags[p] /\ Exists(p) /\ receipts[p].status = "RETRYABLE" /\ next.status = "CLAIMED"
    => clock >= receipts[p].nextAttemptAt

OnTime(s) ==
  /\ s.pc \in OnRow => s.now <= clock
  /\ s.pc \in {"upload", "reread"} /\ s.next.status = "RETRYABLE" =>
       s.delay <= MaxDelay /\ s.next.nextAttemptAt <= s.now + s.delay
  /\ s.pc = "upload" => DueWrite(Rows[Body[s.entry]][s.row], s.etag, s.next)
  /\ s.pc = "settle" /\ s.reason \in {"RETRY_NOT_DUE", "PROVIDER_RETRYABLE"} =>
       s.wakeAt >= s.stored.nextAttemptAt

DueInv ==
  /\ \A p \in Paths : Exists(p) => DueSoon(receipts[p])
  /\ \A x \in late : DueSoon(x.receipt) /\ DueWrite(x.path, x.etag, x.receipt)
  /\ \A w \in Workers : OnTime(worker[w])

------------------------------------------------------------------------------
(***************************************************************************)
(* The life of a receipt is finite: an attempt is claimed, started and     *)
(* ended, and after the last one the budget may be found exhausted.  No    *)
(* receipt has been written more often than its attempts and its status    *)
(* account for.                                                            *)
(***************************************************************************)
Rank(status) ==
  CASE status = "CLAIMED"      -> 1
    [] status = "SEND_STARTED" -> 2
    [] status = "RETRYABLE"    -> 3
    [] status \in {"ACCEPTED", "SIMULATED", "UNKNOWN", "FAILED"} -> 4

Accounted(r) == r.stateVersion <= 3 * (r.attemptCount - 1) + Rank(r.status)

AccountInv ==
  /\ \A p \in Paths : Exists(p) => Accounted(receipts[p])
  /\ \A x \in late : Accounted(x.receipt)
  /\ \A w \in Workers :
       /\ worker[w].pc \in {"upload", "reread"} => Accounted(worker[w].next)
       /\ worker[w].pc = "send" => Accounted(worker[w].stored)

(***************************************************************************)
(* However many workers, crashes, conflicts and late writes meet there, a  *)
(* receipt is stored at most three times per attempt, and once more.       *)
(***************************************************************************)
WritesBounded == \A p \in Paths : etags[p] <= 3 * MaxAttempts + 1

(***************************************************************************)
(* How far a worker is in its delivery: the rows, and within a row the     *)
(* calls of processRecipient in the only order in which they can follow    *)
(* one another.                                                            *)
(***************************************************************************)
Place(s) ==
  LET read == IF s.pc = "reread" THEN 1 ELSE 0
      write == CASE s.step = "create" -> 2
                 [] s.step \in {"exhaust", "reclaim", "recover"} -> 5
                 [] s.step = "start"  -> 7
                 [] s.step = "commit" -> 10
  IN  CASE s.pc = "blobs" -> 0
        [] s.pc = "row"   -> 12 * s.row
        [] s.pc = "get"   -> 12 * s.row + 1
        [] s.pc = "reget" -> 12 * s.row + 4
        [] s.pc \in {"upload", "reread"} -> 12 * s.row + write + read
        [] s.pc = "send"  -> 12 * s.row + 9

\* A worker in state r may go on with its delivery in state s.
GoesOn(r, s) ==
  /\ s.entry = r.entry
  /\ \/ s.pc = "settle" /\ r.pc # "settle"
     \/ /\ s.pc \in {"row"} \cup OnRow
        /\ Place(r) < Place(s)
        /\ Place(s) <= 12 * (Len(Rows[Body[s.entry]]) + 1)

(***************************************************************************)
(* Process does nothing twice in one delivery: every step takes the worker *)
(* further in the batch, or to its verdict, or ends the delivery.          *)
(***************************************************************************)
DeliveriesAdvance ==
  [][\A w \in Workers : worker'[w] # worker[w] =>
       \/ worker[w].pc = "idle" /\ worker'[w].pc = "blobs"
       \/ worker[w].pc # "idle" /\ worker'[w] = Idle
       \/ worker[w].pc \notin {"idle", "settle"} /\ GoesOn(worker[w], worker'[w])]_vars
==============================================================================
