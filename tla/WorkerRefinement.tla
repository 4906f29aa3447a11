--------------------------- MODULE WorkerRefinement ---------------------------
(***************************************************************************)
(* Worker implements Effect, for every value of the constants: the initial *)
(* states agree, and under the inductive invariant IInv every step of a    *)
(* worker, of the store and of the broker is for the recipients an         *)
(* attempt, a verdict, or nothing.                                         *)
(***************************************************************************)
EXTENDS WorkerSafety, WorkerEffect, WorkerLiveness

\* The recipients' view of the stored receipts.
Verdicts == [p \in Paths |-> VerdictOf(receipts[p])]

\* What a receipt's status says to the recipient (VerdictOf).
LEMMA VerdictCases ==
  ASSUME NEW r
  PROVE  /\ r.status \in Delivered => VerdictOf(r) = "notified"
         /\ r.status = "FAILED" => VerdictOf(r) = "failed"
         /\ r.status = "UNKNOWN" => VerdictOf(r) = "unknown"
         /\ r.status \notin Terminal => VerdictOf(r) = "open"
  BY DEF VerdictOf, Delivered, Terminal

\* Nothing is known of a recipient before the first claim (Init).
LEMMA RefinesInit == Init => Promise!Init
<1> SUFFICES ASSUME Init PROVE Promise!Init
  OBVIOUS
<1>1. \A p \in Paths : VerdictOf(receipts[p]) = "open"
  BY VerdictCases DEF Init, NoReceipt, Terminal
<1>2. QED
  BY <1>1 DEF Init, Promise!Init

\* The call of the provider is an attempt that the verdict still allows (Send).
LEMMA SendRefines ==
  ASSUME IInv, NEW w \in Workers, Send(w)
  PROVE  Promise!Next \/ UNCHANGED <<requests, effects, receipts>>
<1> DEFINE p == Path(w)
<1>1. /\ worker[w].pc = "send" /\ UNCHANGED receipts
      /\ p \in Paths
      /\ GoodSend(w)
      /\ worker[w].stored \in Receipts
  BY WorkerFacts DEF Send, OnRow, IInv, JournalInv, GoodWorkers, ControlOK
<1>2. /\ requests \in [Paths -> Nat] /\ effects \in [Paths -> Nat]
      /\ worker[w].stored.attemptCount \in 1..MaxAttempts
  BY <1>1 DEF IInv, TypeInv, TypeOK, Receipts, ReceiptOf
<1>3. VerdictOf(receipts[p]) \in {"open", "unknown"}
  BY <1>1, VerdictCases DEF GoodSend, Terminal
<1>4. effects[p] = 0 /\ requests[p] < MaxAttempts
  BY <1>1, <1>2, MaxAttemptsAssumption DEF GoodSend
<1>5. ASSUME NEW accepted \in BOOLEAN, Requested(p, accepted) PROVE Promise!Attempt(p)
  <2>1. requests' = [requests EXCEPT ![p] = @ + 1]
    BY <1>5 DEF Requested
  <2>2. effects' = [effects EXCEPT ![p] = IF accepted THEN 1 ELSE 0]
    BY <1>1, <1>2, <1>4, <1>5 DEF Requested
  <2>3. \E a \in {0, 1} : effects' = [effects EXCEPT ![p] = a]
    BY <2>2
  <2>4. QED
    BY <1>1, <1>3, <1>4, <2>1, <2>3 DEF Promise!Attempt
<1>6. QED
  BY <1>1, <1>5, SendMoves DEF IInv, Promise!Next

\* A write the store applies is a verdict, or says nothing new (ReplaceReceipt).
LEMMA WriteRefines ==
  ASSUME IInv, NEW p \in Paths, NEW next \in Receipts,
         GoodWrite(p, etags[p], next), ReplaceReceipt(p, next),
         UNCHANGED <<requests, effects>>
  PROVE  Promise!Next \/ UNCHANGED Verdicts
<1> DEFINE v == VerdictOf(next)
<1>1. receipts' = [receipts EXCEPT ![p] = next] /\ receipts \in [Paths -> Receipts \cup {NoReceipt}]
  BY DEF ReplaceReceipt, IInv, TypeInv, TypeOK
<1>2. Follows(p, next)
  BY DEF GoodWrite
<1>3. VerdictOf(receipts[p]) = "open"
  BY <1>2, VerdictCases DEF Follows, Exists, NoReceipt, terminal, Terminal
<1>4. Verdicts' = [Verdicts EXCEPT ![p] = v]
  BY <1>1 DEF Verdicts
<1>5. CASE next.status \notin Terminal
  <2>1. v = "open"
    BY <1>5, VerdictCases
  <2>2. QED
    BY <1>3, <1>4, <2>1 DEF Verdicts
<1>6. CASE next.status \in Terminal
  <2>1. /\ v \in {"notified", "failed", "unknown"}
        /\ v = "notified" => next.status \in Delivered
        /\ v = "failed" => next.status = "FAILED"
    BY <1>6, VerdictCases DEF Terminal, Delivered
  <2>2. /\ v = "notified" => effects[p] = 1
        /\ v = "failed" => effects[p] = 0
    BY <1>2, <2>1 DEF Follows
  <2>3. Promise!Conclude(p, v)
    BY <1>3, <1>4, <2>2 DEF Promise!Conclude, Verdicts
  <2>4. QED
    BY <2>1, <2>3 DEF Promise!Next
<1>7. QED
  BY <1>5, <1>6

\* Every step of the worker is a step of Effect or changes nothing in it (Next).
LEMMA RefinesStep == IInv /\ [Next]_vars => [Promise!Next]_(Promise!vars)
<1> SUFFICES ASSUME IInv, [Next]_vars PROVE Promise!Next \/ UNCHANGED Promise!vars
  OBVIOUS
<1>s. ASSUME UNCHANGED <<requests, effects>>, UNCHANGED Verdicts
      PROVE  UNCHANGED Promise!vars
  BY <1>s DEF Promise!vars, Verdicts
<1>u. ASSUME UNCHANGED <<requests, effects, receipts>> PROVE UNCHANGED Promise!vars
  BY <1>u DEF Promise!vars
<1>1. ASSUME NEW w \in Workers, Upload(w) PROVE Promise!Next \/ UNCHANGED Promise!vars
  <2>1. /\ worker[w].pc = "upload"
        /\ Path(w) \in Paths
        /\ worker[w].next \in Receipts
        /\ GoodWrite(Path(w), worker[w].etag, worker[w].next)
        /\ UNCHANGED <<requests, effects>>
    BY <1>1, WorkerFacts DEF Upload, OnRow, ControlOK, IInv, JournalInv, GoodWrites
  <2>2. CASE UNCHANGED receipts
    BY <1>u, <2>1, <2>2
  <2>3. CASE etags[Path(w)] = worker[w].etag /\ ReplaceReceipt(Path(w), worker[w].next)
    BY <1>s, <2>1, <2>3, WriteRefines
  <2>4. QED
    BY <1>1, <2>2, <2>3 DEF Upload, ETagMatches
<1>2. CASE LateUpload
  <2>1. PICK x \in late :
          /\ IF etags[x.path] = x.etag
             THEN ReplaceReceipt(x.path, x.receipt)
             ELSE UNCHANGED receipts
          /\ UNCHANGED <<requests, effects>>
    BY <1>2 DEF LateUpload, ETagMatches
  <2>2. /\ x.path \in Paths /\ x.receipt \in Receipts
        /\ GoodWrite(x.path, x.etag, x.receipt)
    BY DEF IInv, TypeInv, TypeOK, Write, JournalInv, GoodWrites
  <2>3. QED
    BY <1>s, <1>u, <2>1, <2>2, WriteRefines
<1>3. ASSUME NEW w \in Workers, Send(w) PROVE Promise!Next \/ UNCHANGED Promise!vars
  BY <1>3, <1>u, SendRefines
<1>4. QED
  BY <1>1, <1>2, <1>3, <1>u
  DEF Next, WorkerStep, vars, Receive, ReadBlobs, ScanRow, GetReceipt,
      GetAfterConflict, Reread, Settle, Interrupt, LockExpires, Tick

(***************************************************************************)
(* The worker (Process, processRecipient, the receipt store) keeps the     *)
(* promise of Effect to every recipient: at most one accepted request, no  *)
(* request after a verdict other than "unknown", and no wrong verdict.     *)
(***************************************************************************)
THEOREM WorkerKeepsPromise == Spec => ImplementsEffect
<1>1. Spec => []IInv
  BY Inductive
<1>2. QED
  BY <1>1, RefinesInit, RefinesStep, PTL DEF Spec, ImplementsEffect, Promise!Spec

------------------------------------------------------------------------------
(***************************************************************************)
(* What Effect promises: its own properties, and hence the recipients' of  *)
(* everything that implements it.                                          *)
(***************************************************************************)
\* The recipients of Effect are the paths of the worker.
LEMMA KeptInit == Promise!Init => Promise!Kept
  BY MaxAttemptsAssumption DEF Promise!Init, Promise!Kept

\* Attempts and verdicts keep the promise, and take nothing back (Attempt, Conclude).
LEMMA KeptStep ==
  ASSUME Promise!Kept, Promise!Next
  PROVE  /\ Promise!Kept'
         /\ \A r \in Paths :
              /\ Verdicts[r] # "open" => Verdicts'[r] = Verdicts[r]
              /\ effects[r] = 1 => effects'[r] = 1
              /\ effects[r] = 1 \/ Verdicts[r] \in {"notified", "failed"} =>
                   requests'[r] = requests[r] /\ effects'[r] = effects[r]
<1>1. PICK r \in Paths :
        Promise!Attempt(r) \/ \E v \in {"notified", "failed", "unknown"} : Promise!Conclude(r, v)
  BY DEF Promise!Next
<1>2. CASE Promise!Attempt(r)
  BY <1>2, MaxAttemptsAssumption DEF Promise!Attempt, Promise!Kept, Verdicts
<1>3. ASSUME NEW v \in {"notified", "failed", "unknown"}, Promise!Conclude(r, v)
      PROVE  /\ Promise!Kept'
             /\ \A p \in Paths :
                  /\ Verdicts[p] # "open" => Verdicts'[p] = Verdicts[p]
                  /\ effects[p] = 1 => effects'[p] = 1
                  /\ effects[p] = 1 \/ Verdicts[p] \in {"notified", "failed"} =>
                       requests'[p] = requests[p] /\ effects'[p] = effects[p]
  BY <1>3 DEF Promise!Conclude, Promise!Kept, Verdicts
<1>4. QED
  BY <1>1, <1>2, <1>3

(***************************************************************************)
(* Whatever implements Effect gives the recipients its promise: at most    *)
(* one accepted request, within the attempts allowed, and no wrong verdict,*)
(* and nothing of it is ever taken back.                                   *)
(***************************************************************************)
LEMMA PromiseHolds == ImplementsEffect => []Promise!Kept /\ Promise!Irrevocable
<1>1. Promise!Kept /\ [Promise!Next]_(Promise!vars) => Promise!Kept'
  <2>1. Promise!Kept /\ UNCHANGED Promise!vars => Promise!Kept'
    BY DEF Promise!Kept, Promise!vars
  <2>2. QED
    BY <2>1, KeptStep
<1>2. Promise!Kept /\ [Promise!Next]_(Promise!vars) =>
        [\A r \in Paths :
           /\ Verdicts[r] # "open" => Verdicts'[r] = Verdicts[r]
           /\ effects[r] = 1 => effects'[r] = 1
           /\ effects[r] = 1 \/ Verdicts[r] \in {"notified", "failed"} =>
                requests'[r] = requests[r] /\ effects'[r] = effects[r]]_(Promise!vars)
  BY KeptStep
<1>3. ImplementsEffect => []Promise!Kept
  BY <1>1, KeptInit, PTL DEF ImplementsEffect, Promise!Spec
<1>4. QED
  BY <1>2, <1>3, PTL DEF ImplementsEffect, Promise!Spec, Promise!Irrevocable, Verdicts

(***************************************************************************)
(* The worker's recipients: every notification and every verdict of        *)
(* processRecipient is one that Effect promises, and final.                *)
(***************************************************************************)
THEOREM RecipientsCanRely == Spec => []Promise!Kept /\ Promise!Irrevocable
  BY WorkerKeepsPromise, PromiseHolds, PTL

------------------------------------------------------------------------------
(***************************************************************************)
(* Time without end: the specification of WorkerLiveness, whose clock      *)
(* moves its origin instead of stopping, keeps the invariant and the       *)
(* promise too.                                                            *)
(***************************************************************************)
\* A receipt with earlier times is otherwise the same receipt (ReceiptEarlier).
LEMMA EarlierReceipt ==
  ASSUME NEW r \in Receipts \cup {NoReceipt}, NEW s, s = ReceiptEarlier(r)
  PROVE  /\ s = NoReceipt <=> r = NoReceipt
         /\ r \in Receipts => s \in Receipts
         /\ s \in Receipts \cup {NoReceipt}
         /\ s.status = r.status /\ s.attemptCount = r.attemptCount
         /\ s.stateVersion = r.stateVersion /\ s.queueMessageID = r.queueMessageID
<1>1. CASE r = NoReceipt
  BY <1>1, NoReceiptFact DEF ReceiptEarlier
<1>2. CASE r \in Receipts
  <2>1. r # NoReceipt
    BY <1>2, NoReceiptFact
  <2>2. s = [r EXCEPT !.claimedAt     = earlier(@),
                      !.sendStartedAt = earlier(@),
                      !.nextAttemptAt = earlier(@)]
    BY <2>1 DEF ReceiptEarlier
  <2>3. \A t \in Time : earlier(t) \in Time
    BY DEF Time, NoTime, earlier
  <2>4. s \in Receipts
    BY <1>2, <2>2, <2>3 DEF Receipts, ReceiptOf
  <2>5. /\ s.status = r.status /\ s.attemptCount = r.attemptCount
        /\ s.stateVersion = r.stateVersion /\ s.queueMessageID = r.queueMessageID
    BY <1>2, <2>2 DEF Receipts, ReceiptOf
  <2>6. QED
    BY <2>1, <2>4, <2>5, NoReceiptFact
<1>3. QED
  BY <1>1, <1>2

\* A worker whose times are earlier is at the same place with the same work (Rebase).
LEMMA EarlierWorker ==
  ASSUME TypeInv, Rebase, NEW w \in Workers
  PROVE  /\ worker'[w] \in GoodStates
         /\ worker'[w].pc = worker[w].pc /\ worker'[w].entry = worker[w].entry
         /\ worker'[w].row = worker[w].row /\ worker'[w].etag = worker[w].etag
         /\ worker'[w].step = worker[w].step
         /\ worker'[w].next = ReceiptEarlier(worker[w].next)
         /\ worker'[w].stored = ReceiptEarlier(worker[w].stored)
<1> PICK u : u = worker[w]
  OBVIOUS
<1> PICK s : s = worker'[w]
  OBVIOUS
<1>1. u \in WorkerState /\ ControlOK(u)
  BY DEF TypeInv, GoodStates
<1>2. s = [u EXCEPT !.now    = earlier(@),
                    !.wakeAt = earlier(@),
                    !.stored = ReceiptEarlier(@),
                    !.next   = ReceiptEarlier(@)]
  BY DEF Rebase
<1>3. /\ u.next \in Receipts \cup {NoReceipt} /\ u.stored \in Receipts \cup {NoReceipt}
      /\ u.now \in Nat /\ u.wakeAt \in Nat
  BY <1>1 DEF WorkerState
<1>4. earlier(u.now) \in Nat /\ earlier(u.wakeAt) \in Nat
  BY <1>3 DEF earlier
<1>5. /\ ReceiptEarlier(u.next) \in Receipts \cup {NoReceipt}
      /\ ReceiptEarlier(u.stored) \in Receipts \cup {NoReceipt}
      /\ u.next \in Receipts => ReceiptEarlier(u.next) \in Receipts
      /\ u.stored \in Receipts => ReceiptEarlier(u.stored) \in Receipts
  BY <1>3, EarlierReceipt
<1>6. s \in WorkerState
  BY <1>1, <1>2, <1>4, <1>5 DEF WorkerState
<1>7. /\ s.pc = u.pc /\ s.entry = u.entry /\ s.row = u.row /\ s.etag = u.etag /\ s.step = u.step
      /\ s.next = ReceiptEarlier(u.next) /\ s.stored = ReceiptEarlier(u.stored)
  BY <1>1, <1>2 DEF WorkerState
<1>8. ControlOK(s)
  BY <1>1, <1>5, <1>7 DEF ControlOK
<1>9. QED
  BY <1>6, <1>7, <1>8 DEF GoodStates

\* The moved origin leaves every receipt, write and worker well formed (Rebase).
LEMMA RebaseTyped == TypeInv /\ Rebase => TypeInv'
<1> SUFFICES ASSUME TypeInv, Rebase PROVE TypeInv'
  OBVIOUS
<1>1. worker' \in [Workers -> GoodStates] /\ worker' \in [Workers -> WorkerState]
  BY EarlierWorker DEF Rebase, GoodStates
<1>2. receipts' \in [Paths -> Receipts \cup {NoReceipt}]
  BY EarlierReceipt DEF Rebase, TypeInv, TypeOK
<1>3. late' \subseteq Write
  <2>1. ASSUME NEW x \in late PROVE [x EXCEPT !.receipt = ReceiptEarlier(@)] \in Write
    <3>1. x \in Write /\ x.receipt \in Receipts
      BY DEF TypeInv, TypeOK, Write
    <3>2. ReceiptEarlier(x.receipt) \in Receipts
      BY <3>1, EarlierReceipt
    <3>3. QED
      BY <3>1, <3>2 DEF Write
  <2>2. QED
    BY <2>1 DEF Rebase
<1>4. QED
  BY <1>1, <1>2, <1>3 DEF TypeInv, TypeOK, Rebase

(***************************************************************************)
(* The journal does not depend on the origin of its times: none of what    *)
(* the invariant says of receipts, writes and workers does (Rebase).       *)
(***************************************************************************)
LEMMA RebaseJournal == IInv /\ Rebase => JournalInv'
<1> SUFFICES ASSUME IInv, Rebase PROVE JournalInv'
  OBVIOUS
<1>t. TypeInv /\ JournalInv
  BY DEF IInv
<1>1. /\ UNCHANGED <<etags, requests, effects>>
      /\ \A p \in Paths :
           /\ receipts[p] \in Receipts \cup {NoReceipt}
           /\ receipts'[p] = ReceiptEarlier(receipts[p])
  BY <1>t DEF Rebase, TypeInv, TypeOK
<1>2. ASSUME NEW p \in Paths
      PROVE  /\ Exists(p)' <=> Exists(p)
             /\ receipts'[p].status = receipts[p].status
             /\ receipts'[p].attemptCount = receipts[p].attemptCount
             /\ receipts'[p].stateVersion = receipts[p].stateVersion
             /\ receipts'[p].queueMessageID = receipts[p].queueMessageID
  BY <1>1, EarlierReceipt DEF Exists
<1>3. ASSUME NEW w \in Workers
      PROVE  /\ worker[w].next \in Receipts \cup {NoReceipt}
             /\ worker[w].stored \in Receipts \cup {NoReceipt}
             /\ Path(w)' = Path(w)
             /\ HasTicket(w)' <=> HasTicket(w)
             /\ Ticket(w)' = Ticket(w)
             /\ worker[w].pc \in OnRow => Path(w) \in Paths
  <2>1. /\ worker[w].next \in Receipts \cup {NoReceipt}
        /\ worker[w].stored \in Receipts \cup {NoReceipt}
    BY <1>t DEF TypeInv, TypeOK, WorkerState
  <2>2. worker'[w].next.stateVersion = worker[w].next.stateVersion
    BY <1>t, <2>1, EarlierWorker, EarlierReceipt
  <2>3. QED
    BY <1>t, <2>1, <2>2, EarlierWorker, WorkerFacts DEF Path, Message, HasTicket, Ticket
<1>4. (VersionIsETag /\ AtMostOneEffect /\ JournalTruthful /\ AttemptBudget)'
  BY <1>1, <1>2, <1>t
  DEF JournalInv, VersionIsETag, AtMostOneEffect, JournalTruthful, AttemptBudget
<1>5. ASSUME NEW p \in Paths, NEW etag, NEW r \in Receipts, NEW s, s = ReceiptEarlier(r),
             GoodWrite(p, etag, r)
      PROVE  GoodWrite(p, etag, s)'
  <2>1. /\ s.status = r.status /\ s.attemptCount = r.attemptCount
        /\ s.stateVersion = r.stateVersion /\ s.queueMessageID = r.queueMessageID
    BY <1>5, EarlierReceipt
  <2>2. Follows(p, r) => Follows(p, s)'
    BY <1>1, <1>2, <2>1 DEF Follows, terminal
  <2>3. \A w \in Workers : MaySend(w, p, etag)' => MaySend(w, p, etag)
    BY <1>3 DEF MaySend
  <2>4. QED
    BY <1>1, <1>5, <2>1, <2>2, <2>3 DEF GoodWrite
<1>6. GoodWrites'
  <2>1. ASSUME NEW x \in late' PROVE GoodWrite(x.path, x.etag, x.receipt)'
    <3>1. PICK y \in late : x = [y EXCEPT !.receipt = ReceiptEarlier(@)]
      BY DEF Rebase
    <3>2. y \in Write /\ y.path \in Paths /\ y.receipt \in Receipts
      BY <1>t DEF TypeInv, TypeOK, Write
    <3>3. x.path = y.path /\ x.etag = y.etag /\ x.receipt = ReceiptEarlier(y.receipt)
      BY <3>1, <3>2 DEF Write
    <3>4. GoodWrite(y.path, y.etag, y.receipt)
      BY <1>t DEF JournalInv, GoodWrites
    <3>5. QED
      BY <1>5, <3>2, <3>3, <3>4
  <2>2. ASSUME NEW w \in Workers, worker'[w].pc = "upload"
        PROVE  /\ GoodWrite(Path(w), worker[w].etag, worker[w].next)'
               /\ worker'[w].step = "start" => worker'[w].next.status = "SEND_STARTED"
    <3>1. /\ worker[w].pc = "upload" /\ worker'[w].etag = worker[w].etag
          /\ worker'[w].step = worker[w].step
          /\ worker'[w].next = ReceiptEarlier(worker[w].next)
      BY <1>t, <2>2, EarlierWorker
    <3>2. worker[w].next \in Receipts /\ Path(w) \in Paths /\ Path(w)' = Path(w)
      BY <1>t, <1>3, <3>1 DEF TypeInv, GoodStates, ControlOK, OnRow
    <3>3. /\ GoodWrite(Path(w), worker[w].etag, worker[w].next)
          /\ worker[w].step = "start" => worker[w].next.status = "SEND_STARTED"
      BY <1>t, <3>1 DEF JournalInv, GoodWrites
    <3>4. worker'[w].next.status = worker[w].next.status
      BY <3>1, <3>2, EarlierReceipt
    <3>5. QED
      BY <1>5, <3>1, <3>2, <3>3, <3>4
  <2>3. QED
    BY <2>1, <2>2 DEF GoodWrites
<1>7. GoodWorkers'
  <2>1. ASSUME NEW w \in Workers, worker'[w].pc = "reread" PROVE GoodReread(w)'
    <3>1. /\ worker[w].pc = "reread" /\ worker'[w].etag = worker[w].etag
          /\ worker'[w].step = worker[w].step
          /\ worker'[w].next = ReceiptEarlier(worker[w].next)
      BY <1>t, <2>1, EarlierWorker
    <3>2. Path(w) \in Paths /\ Path(w)' = Path(w) /\ GoodReread(w)
      BY <1>t, <1>3, <3>1 DEF OnRow, JournalInv, GoodWorkers
    <3>3. worker'[w].next.stateVersion = worker[w].next.stateVersion
      BY <1>3, <3>1, EarlierReceipt
    <3>4. receipts[Path(w)] = worker[w].next => receipts'[Path(w)] = worker'[w].next
      BY <1>1, <3>1, <3>2
    <3>5. QED
      BY <1>1, <1>2, <3>1, <3>2, <3>3, <3>4 DEF GoodReread
  <2>2. ASSUME NEW w \in Workers, worker'[w].pc = "send" PROVE GoodSend(w)'
    <3>1. /\ worker[w].pc = "send" /\ worker'[w].etag = worker[w].etag
          /\ worker'[w].stored = ReceiptEarlier(worker[w].stored)
      BY <1>t, <2>2, EarlierWorker
    <3>2. Path(w) \in Paths /\ Path(w)' = Path(w) /\ GoodSend(w)
      BY <1>t, <1>3, <3>1 DEF OnRow, JournalInv, GoodWorkers
    <3>3. /\ worker'[w].stored.stateVersion = worker[w].stored.stateVersion
          /\ worker'[w].stored.status = worker[w].stored.status
          /\ worker'[w].stored.attemptCount = worker[w].stored.attemptCount
      BY <1>3, <3>1, EarlierReceipt
    <3>4. receipts[Path(w)] = worker[w].stored => receipts'[Path(w)] = worker'[w].stored
      BY <1>1, <3>1, <3>2
    <3>5. QED
      BY <1>1, <1>2, <3>1, <3>2, <3>3, <3>4 DEF GoodSend
  <2>3. QED
    BY <2>1, <2>2 DEF GoodWorkers
<1>8. OneSender'
  BY <1>t, <1>3 DEF JournalInv, OneSender
<1>9. QED
  BY <1>4, <1>6, <1>7, <1>8 DEF JournalInv

\* A step of the long run is a step of Worker, or moves the origin (LiveNext).
LEMMA LiveStep == [LiveNext]_liveVars => [Next]_vars \/ Rebase
  BY DEF LiveNext, FaultyStep, Recover, HealthyNext, HealthyStep, OrphanExpires, TimePasses,
         liveVars, vars, Next

\* The recipients see nothing of a moved origin (VerdictOf).
LEMMA RebaseRefines == IInv /\ Rebase => UNCHANGED Promise!vars
<1> SUFFICES ASSUME IInv, Rebase PROVE UNCHANGED Promise!vars
  OBVIOUS
<1>1. UNCHANGED <<requests, effects>>
  BY DEF Rebase
<1>2. ASSUME NEW p \in Paths PROVE VerdictOf(receipts'[p]) = VerdictOf(receipts[p])
  <2>1. /\ receipts[p] \in Receipts \cup {NoReceipt}
        /\ receipts'[p] = ReceiptEarlier(receipts[p])
    BY DEF IInv, TypeInv, TypeOK, Rebase
  <2>2. receipts'[p].status = receipts[p].status
    BY <2>1, EarlierReceipt
  <2>3. QED
    BY <2>2, VerdictCases DEF Terminal, Delivered
<1>3. UNCHANGED Verdicts
  BY <1>2 DEF Verdicts
<1>4. QED
  BY <1>1, <1>3 DEF Promise!vars, Verdicts

(***************************************************************************)
(* The invariant holds however long the workers run and the clock goes on, *)
(* before the faults stop and after: the last tick of Worker's clock hides *)
(* no violation.                                                           *)
(***************************************************************************)
THEOREM LongRunInductive == LiveSpec => []IInv
<1>1. LiveInit => IInv
  BY TypeInit, JournalInit DEF LiveInit, IInv
<1>2. IInv /\ [LiveNext]_liveVars => IInv'
  BY LiveStep, TypeStep, JournalStep, RebaseTyped, RebaseJournal DEF IInv
<1>3. QED
  BY <1>1, <1>2, PTL DEF LiveSpec

(***************************************************************************)
(* In the long run too every recipient has what Effect promises, so that   *)
(* what WorkerLiveness adds, that deliveries end, is never bought with a   *)
(* second notification or a wrong verdict (processRecipient).              *)
(***************************************************************************)
THEOREM LongRunKeepsPromise == LiveSpec => ImplementsEffect
<1>1. LiveInit => Promise!Init
  BY RefinesInit DEF LiveInit
<1>2. IInv /\ [LiveNext]_liveVars => [Promise!Next]_(Promise!vars)
  BY LiveStep, RefinesStep, RebaseRefines
<1>3. QED
  BY <1>1, <1>2, LongRunInductive, PTL DEF LiveSpec, ImplementsEffect, Promise!Spec

(***************************************************************************)
(* In the long run no recipient is mailed twice, the stored receipts tell  *)
(* the truth, and no more requests are made than attempts are counted.     *)
(***************************************************************************)
THEOREM LongRunIsSafe == LiveSpec => [](AtMostOneEffect /\ JournalTruthful /\ AttemptBudget)
<1>1. IInv => AtMostOneEffect /\ JournalTruthful /\ AttemptBudget
  BY DEF IInv, JournalInv
<1>2. QED
  BY <1>1, LongRunInductive, PTL

------------------------------------------------------------------------------
\* With one tick to the second a stored time loses nothing (formatTime).
LEMMA WholeSeconds == ASSUME NEW t \in Nat PROVE formatTime(t) = t
  BY LivenessAssumption DEF formatTime

\* A receipt with earlier times, field by field (ReceiptEarlier).
LEMMA EarlierTimes ==
  ASSUME NEW r \in Receipts
  PROVE  ReceiptEarlier(r) = [r EXCEPT !.claimedAt     = earlier(r.claimedAt),
                                       !.sendStartedAt = earlier(r.sendStartedAt),
                                       !.nextAttemptAt = earlier(r.nextAttemptAt)]
  BY NoReceiptFact DEF ReceiptEarlier

\* Ages are compared alike before and after the origin moves.
LEMMA EarlierAges ==
  ASSUME NEW t \in Time, NEW now \in Nat, now > ClaimTimeout
  PROVE  /\ earlier(t) = NoTime <=> t = NoTime
         /\ earlier(now) = now - 1 /\ earlier(now) \in Nat
         /\ t # NoTime => /\ earlier(now) - earlier(t) >= ClaimTimeout <=> now - t >= ClaimTimeout
                          /\ earlier(now) >= earlier(t) <=> now >= t
         /\ now < t => earlier(t) - earlier(now) = t - now
  BY ClaimTimeoutAssumption DEF earlier, Time, NoTime

(***************************************************************************)
(* Moving the origin of the clock is invisible to the program: at a time   *)
(* beyond the first ClaimTimeout ticks every test that processRecipient    *)
(* makes of a stored time (Reclaim, RecoverStale, the wait for a retry,    *)
(* activeDelay) has the same answer for the receipt and the clock reading  *)
(* both made one tick earlier.                                             *)
(***************************************************************************)
THEOREM OriginIsInvisible ==
  ASSUME NEW r \in Receipts, NEW now \in Nat, now > ClaimTimeout
  PROVE  LET s == ReceiptEarlier(r) IN
         /\ ReclaimAllowed(s, earlier(now)) <=> ReclaimAllowed(r, now)
         /\ RecoverStaleAllowed(s, earlier(now)) <=> RecoverStaleAllowed(r, now)
         /\ earlier(now) < s.nextAttemptAt <=> now < r.nextAttemptAt
         /\ now < r.nextAttemptAt => s.nextAttemptAt - earlier(now) = r.nextAttemptAt - now
         /\ activeDelay(s, earlier(now)) = activeDelay(r, now)
<1> PICK s : s = ReceiptEarlier(r)
  OBVIOUS
<1>1. /\ r.claimedAt \in Time /\ r.sendStartedAt \in Time /\ r.nextAttemptAt \in Time
      /\ s.claimedAt = earlier(r.claimedAt) /\ s.sendStartedAt = earlier(r.sendStartedAt)
      /\ s.nextAttemptAt = earlier(r.nextAttemptAt)
      /\ s.status = r.status /\ s.attemptCount = r.attemptCount
  BY EarlierTimes DEF Receipts, ReceiptOf
<1>2. ReclaimAllowed(s, earlier(now)) <=> ReclaimAllowed(r, now)
  BY <1>1, EarlierAges DEF ReclaimAllowed
<1>3. RecoverStaleAllowed(s, earlier(now)) <=> RecoverStaleAllowed(r, now)
  BY <1>1, EarlierAges DEF RecoverStaleAllowed
<1>4. /\ earlier(now) < s.nextAttemptAt <=> now < r.nextAttemptAt
      /\ now < r.nextAttemptAt => s.nextAttemptAt - earlier(now) = r.nextAttemptAt - now
  BY <1>1, ClaimTimeoutAssumption DEF earlier, Time, NoTime
<1>5. activeDelay(s, earlier(now)) = activeDelay(r, now)
  <2>1. ASSUME NEW t \in Time
        PROVE  boundedDelay(ClaimTimeout - (earlier(now) - earlier(t)))
                 = boundedDelay(ClaimTimeout - (now - t)) \/ t = NoTime
    BY ClaimTimeoutAssumption, LivenessAssumption, MaxDelayAssumption
    DEF boundedDelay, Larger, Smaller, earlier, Time, NoTime
  <2>2. QED
    BY <1>1, <2>1, EarlierAges DEF activeDelay
<1>6. QED
  BY <1>2, <1>3, <1>4, <1>5

\* A receipt is another one made earlier when its fields say so (ReceiptEarlier).
LEMMA EarlierByField ==
  ASSUME NEW n \in Receipts, NEW m \in Receipts,
         m.status = n.status, m.attemptCount = n.attemptCount,
         m.stateVersion = n.stateVersion, m.queueMessageID = n.queueMessageID,
         m.claimedAt = earlier(n.claimedAt), m.sendStartedAt = earlier(n.sendStartedAt),
         m.nextAttemptAt = earlier(n.nextAttemptAt)
  PROVE  m = ReceiptEarlier(n)
<1>1. ReceiptEarlier(n) = [n EXCEPT !.claimedAt     = earlier(n.claimedAt),
                                    !.sendStartedAt = earlier(n.sendStartedAt),
                                    !.nextAttemptAt = earlier(n.nextAttemptAt)]
  BY EarlierTimes
<1>2. PICK e : e = ReceiptEarlier(n)
  OBVIOUS
<1>3. /\ e \in Receipts
      /\ e.status = n.status /\ e.attemptCount = n.attemptCount
      /\ e.stateVersion = n.stateVersion /\ e.queueMessageID = n.queueMessageID
  BY <1>2, EarlierReceipt
<1>4. /\ e.claimedAt = earlier(n.claimedAt) /\ e.sendStartedAt = earlier(n.sendStartedAt)
      /\ e.nextAttemptAt = earlier(n.nextAttemptAt)
  BY <1>1, <1>2 DEF Receipts, ReceiptOf
<1>5. m = e
  BY <1>3, <1>4 DEF Receipts, ReceiptOf
<1>6. QED
  BY <1>2, <1>5

(***************************************************************************)
(* The other half: every time that a transition of receipt.go writes moves *)
(* with the origin, so a transition of the receipt made one tick earlier   *)
(* is the transition of the receipt, made one tick earlier.                *)
(***************************************************************************)
THEOREM TransitionsMoveWithOrigin ==
  ASSUME NEW r \in Receipts, NEW now \in Nat, now > ClaimTimeout, NEW delay \in Nat
  PROVE  LET s == ReceiptEarlier(r) IN
         /\ \A m \in Messages :
              ClaimReceipt(m, earlier(now)) = ReceiptEarlier(ClaimReceipt(m, now))
         /\ StartSend(s, earlier(now)) = ReceiptEarlier(StartSend(r, now))
         /\ ReclaimAllowed(r, now) =>
              Reclaim(s, earlier(now)) = ReceiptEarlier(Reclaim(r, now))
         /\ RecoverStaleAllowed(r, now) =>
              RecoverStale(s, earlier(now)) = ReceiptEarlier(RecoverStale(r, now))
         /\ Retry(s, earlier(now) + delay) = ReceiptEarlier(Retry(r, now + delay))
         /\ \A status \in ReceiptStatus :
              finish(s, status) = ReceiptEarlier(finish(r, status))
<1> PICK s : s = ReceiptEarlier(r)
  OBVIOUS
<1>1. /\ earlier(now) = now - 1 /\ earlier(now) \in Nat /\ earlier(now) + delay \in Nat
      /\ now + delay \in Nat /\ earlier(now + delay) = earlier(now) + delay
      /\ earlier(NoTime) = NoTime
  BY ClaimTimeoutAssumption DEF earlier, NoTime
<1>2. s = [r EXCEPT !.claimedAt     = earlier(r.claimedAt),
                    !.sendStartedAt = earlier(r.sendStartedAt),
                    !.nextAttemptAt = earlier(r.nextAttemptAt)]
  BY EarlierTimes
<1>3. /\ formatTime(now) = now /\ formatTime(earlier(now)) = earlier(now)
      /\ formatTime(now + delay) = now + delay
      /\ formatTime(earlier(now) + delay) = earlier(now) + delay
  BY <1>1, WholeSeconds
<1>4. s \in Receipts
  BY EarlierReceipt
<1>5. /\ s.status = r.status /\ s.attemptCount = r.attemptCount
      /\ s.stateVersion = r.stateVersion /\ s.queueMessageID = r.queueMessageID
      /\ s.claimedAt = earlier(r.claimedAt) /\ s.sendStartedAt = earlier(r.sendStartedAt)
      /\ s.nextAttemptAt = earlier(r.nextAttemptAt)
  BY <1>2 DEF Receipts, ReceiptOf
<1>6. ASSUME NEW m \in Messages
      PROVE  ClaimReceipt(m, earlier(now)) = ReceiptEarlier(ClaimReceipt(m, now))
  <2>1. ClaimReceipt(m, now) \in Receipts /\ ClaimReceipt(m, earlier(now)) \in Receipts
    BY <1>1, ClaimTyped
  <2>2. QED
    BY <1>1, <1>3, <2>1, EarlierByField DEF ClaimReceipt
<1>7. StartSend(s, earlier(now)) = ReceiptEarlier(StartSend(r, now))
  <2>1. StartSend(r, now) \in Receipts /\ StartSend(s, earlier(now)) \in Receipts
    BY <1>1, <1>4, TransitionsTyped
  <2>2. ASSUME NEW x \in Receipts, NEW t \in Nat, formatTime(t) = t
        PROVE  LET y == StartSend(x, t) IN
               /\ y.status = "SEND_STARTED" /\ y.attemptCount = x.attemptCount
               /\ y.stateVersion = x.stateVersion + 1 /\ y.queueMessageID = x.queueMessageID
               /\ y.claimedAt = x.claimedAt /\ y.sendStartedAt = t /\ y.nextAttemptAt = NoTime
    BY <2>2 DEF StartSend, Receipts, ReceiptOf
  <2>3. QED
    BY <1>1, <1>3, <1>4, <1>5, <2>1, <2>2, EarlierByField
<1>8. ASSUME ReclaimAllowed(r, now)
      PROVE  Reclaim(s, earlier(now)) = ReceiptEarlier(Reclaim(r, now))
  <2>1. ReclaimAllowed(s, earlier(now))
    BY <1>8, OriginIsInvisible
  <2>2. Reclaim(r, now) \in Receipts /\ Reclaim(s, earlier(now)) \in Receipts
    BY <1>1, <1>4, <1>8, <2>1, TransitionsTyped
  <2>3. ASSUME NEW x \in Receipts, NEW t \in Nat, formatTime(t) = t
        PROVE  LET y == Reclaim(x, t) IN
               /\ y.status = "CLAIMED" /\ y.attemptCount = x.attemptCount + 1
               /\ y.stateVersion = x.stateVersion + 1 /\ y.queueMessageID = x.queueMessageID
               /\ y.claimedAt = t /\ y.sendStartedAt = NoTime /\ y.nextAttemptAt = NoTime
    BY <2>3 DEF Reclaim, Receipts, ReceiptOf
  <2>4. QED
    BY <1>1, <1>3, <1>4, <1>5, <2>2, <2>3, EarlierByField
<1>9. ASSUME NEW status \in ReceiptStatus
      PROVE  finish(s, status) = ReceiptEarlier(finish(r, status))
  <2>1. finish(r, status) \in Receipts /\ finish(s, status) \in Receipts
    BY <1>4, TransitionsTyped
  <2>2. ASSUME NEW x \in Receipts
        PROVE  LET y == finish(x, status) IN
               /\ y.status = status /\ y.attemptCount = x.attemptCount
               /\ y.stateVersion = x.stateVersion + 1 /\ y.queueMessageID = x.queueMessageID
               /\ y.claimedAt = x.claimedAt /\ y.sendStartedAt = x.sendStartedAt
               /\ y.nextAttemptAt = NoTime
    BY DEF finish, Receipts, ReceiptOf
  <2>3. QED
    BY <1>1, <1>4, <1>5, <2>1, <2>2, EarlierByField
<1>10. ASSUME RecoverStaleAllowed(r, now)
       PROVE  RecoverStale(s, earlier(now)) = ReceiptEarlier(RecoverStale(r, now))
  <2>1. RecoverStaleAllowed(s, earlier(now))
    BY <1>10, OriginIsInvisible
  <2>2. RecoverStale(r, now) \in Receipts /\ RecoverStale(s, earlier(now)) \in Receipts
    BY <1>1, <1>4, <1>10, <2>1, TransitionsTyped
  <2>3. CASE r.status = "CLAIMED"
    <3>1. ASSUME NEW x \in Receipts, NEW t \in Nat, formatTime(t) = t, x.status = "CLAIMED"
          PROVE  LET y == RecoverStale(x, t) IN
                 /\ y.status = "CLAIMED" /\ y.attemptCount = x.attemptCount + 1
                 /\ y.stateVersion = x.stateVersion + 1
                 /\ y.queueMessageID = x.queueMessageID
                 /\ y.claimedAt = t /\ y.sendStartedAt = x.sendStartedAt
                 /\ y.nextAttemptAt = x.nextAttemptAt
      BY <3>1 DEF RecoverStale, Receipts, ReceiptOf
    <3>2. QED
      BY <1>1, <1>3, <1>4, <1>5, <2>2, <2>3, <3>1, EarlierByField
  <2>4. CASE r.status # "CLAIMED"
    BY <1>5, <1>9, <2>4 DEF RecoverStale, MarkUnknown, ReceiptStatus
  <2>5. QED
    BY <2>3, <2>4
<1>11. Retry(s, earlier(now) + delay) = ReceiptEarlier(Retry(r, now + delay))
  <2>1. Retry(r, now + delay) \in Receipts /\ Retry(s, earlier(now) + delay) \in Receipts
    BY <1>1, <1>4, TransitionsTyped
  <2>2. ASSUME NEW x \in Receipts, NEW t \in Nat, formatTime(t) = t
        PROVE  LET y == Retry(x, t) IN
               /\ y.status = "RETRYABLE" /\ y.attemptCount = x.attemptCount
               /\ y.stateVersion = x.stateVersion + 1 /\ y.queueMessageID = x.queueMessageID
               /\ y.claimedAt = x.claimedAt /\ y.sendStartedAt = x.sendStartedAt
               /\ y.nextAttemptAt = t
    BY <2>2 DEF Retry, Receipts, ReceiptOf
  <2>3. QED
    BY <1>1, <1>3, <1>4, <1>5, <2>1, <2>2, EarlierByField
<1>12. QED
  BY <1>6, <1>7, <1>8, <1>9, <1>10, <1>11
==============================================================================
