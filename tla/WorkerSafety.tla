----------------------------- MODULE WorkerSafety -----------------------------
(***************************************************************************)
(* The safety of the effect journal, for any number of workers, entries,   *)
(* messages and recipients and any retry policy: IInv is inductive, and    *)
(* the properties of Worker follow from it.                                *)
(***************************************************************************)
EXTENDS WorkerTypes

------------------------------------------------------------------------------
\* The absence of a receipt (ErrNotFound) is not mistaken for one.
LEMMA NoReceiptFact == NoReceipt \notin Receipts
  BY DEF NoReceipt, Receipts, ReceiptOf, ReceiptStatus

\* What the invariant says of a worker depends only on that worker's state.
LEMMA SameWorker ==
  ASSUME NEW v \in Workers, worker'[v] = worker[v]
  PROVE  /\ Path(v)' = Path(v)
         /\ HasTicket(v)' <=> HasTicket(v)
         /\ Ticket(v)' = Ticket(v)
  BY DEF Path, Message, HasTicket, Ticket

\* A worker that may send does so on a version the store has had.
LEMMA TicketBound ==
  ASSUME TypeInv, JournalInv, NEW v \in Workers, HasTicket(v)
  PROVE  /\ Path(v) \in Paths
         /\ Ticket(v) \in Nat
         /\ Ticket(v) <= etags[Path(v)]
<1>1. worker[v].pc \in OnRow /\ worker[v] \in WorkerState /\ ControlOK(worker[v])
  BY WorkerFacts DEF HasTicket, OnRow
<1>2. Path(v) \in Paths
  BY <1>1, WorkerFacts
<1>3. etags[Path(v)] \in Nat
  BY <1>2 DEF TypeInv, TypeOK
<1>4. CASE worker[v].pc = "send"
  <2>1. GoodSend(v)
    BY <1>4 DEF JournalInv, GoodWorkers
  <2>2. worker[v].etag \in Nat
    BY <1>1 DEF WorkerState
  <2>3. QED
    BY <1>2, <1>3, <1>4, <2>1, <2>2 DEF GoodSend, Ticket
<1>5. CASE worker[v].pc = "reread"
  <2>1. GoodReread(v)
    BY <1>5 DEF JournalInv, GoodWorkers
  <2>2. worker[v].next.stateVersion \in Nat
    BY <1>1, <1>5 DEF ControlOK, Receipts, ReceiptOf
  <2>3. QED
    BY <1>2, <1>3, <1>5, <2>1, <2>2 DEF GoodReread, Ticket
<1>6. QED
  BY <1>4, <1>5 DEF HasTicket

(***************************************************************************)
(* A step that leaves the store and the provider alone.  c is the worker   *)
(* that moves; it may begin a write.                                       *)
(***************************************************************************)
LEMMA LocalStep ==
  ASSUME TypeInv, JournalInv, NEW c,
         \A v \in Workers \ {c} : worker'[v] = worker[v],
         c \in Workers =>
           /\ worker'[c].pc \notin {"reread", "send"}
           /\ worker'[c].pc = "upload" =>
                /\ GoodWrite(Path(c)', worker'[c].etag, worker'[c].next)
                /\ worker'[c].step = "start" => worker'[c].next.status = "SEND_STARTED",
         UNCHANGED <<receipts, etags, requests, effects>>,
         \A x \in late' : GoodWrite(x.path, x.etag, x.receipt)
  PROVE  JournalInv'
<1>1. (VersionIsETag /\ AtMostOneEffect /\ JournalTruthful /\ AttemptBudget)'
  BY DEF JournalInv, VersionIsETag, AtMostOneEffect, JournalTruthful, AttemptBudget, Exists
<1>2. ASSUME NEW v \in Workers, HasTicket(v)'
      PROVE  HasTicket(v) /\ Path(v)' = Path(v) /\ Ticket(v)' = Ticket(v)
  <2>1. v # c
    BY <1>2 DEF HasTicket
  <2>2. QED
    BY <1>2, <2>1, SameWorker
<1>3. ASSUME NEW p, NEW etag, NEW next, GoodWrite(p, etag, next)
      PROVE  GoodWrite(p, etag, next)'
  BY <1>2, <1>3 DEF GoodWrite, Follows, Exists, MaySend
<1>4. GoodWrites'
  <2>1. ASSUME NEW w \in Workers, worker'[w].pc = "upload"
        PROVE  /\ GoodWrite(Path(w)', worker'[w].etag, worker'[w].next)
               /\ worker'[w].step = "start" => worker'[w].next.status = "SEND_STARTED"
    BY <2>1, SameWorker DEF JournalInv, GoodWrites
  <2>2. QED
    BY <1>3, <2>1 DEF GoodWrites
<1>5. GoodWorkers'
  <2>1. ASSUME NEW w \in Workers, worker'[w].pc \in {"reread", "send"}
        PROVE  worker'[w] = worker[w] /\ Path(w)' = Path(w)
    BY <2>1, SameWorker
  <2>2. QED
    BY <2>1 DEF JournalInv, GoodWorkers, GoodReread, GoodSend, Exists
<1>6. OneSender'
  BY <1>2 DEF JournalInv, OneSender
<1>7. QED
  BY <1>1, <1>4, <1>5, <1>6 DEF JournalInv

(***************************************************************************)
(* The store applies a write.  c is the worker that made it, if that       *)
(* worker still waits for the answer; it may go on to read the write back. *)
(***************************************************************************)
LEMMA ApplyWrite ==
  ASSUME TypeInv, JournalInv, NEW p \in Paths, NEW next \in Receipts,
         GoodWrite(p, etags[p], next),
         ReplaceReceipt(p, next),
         UNCHANGED <<requests, effects>>,
         late' \subseteq late,
         NEW c,
         \A v \in Workers \ {c} : worker'[v] = worker[v],
         c \in Workers =>
           /\ worker'[c].pc \notin {"upload", "send"}
           /\ worker'[c].pc = "reread" =>
                /\ Path(c)' = p
                /\ worker'[c].etag = etags[p]
                /\ worker'[c].next = next
                /\ worker'[c].step = "start" => next.status = "SEND_STARTED"
  PROVE  JournalInv'
<1> DEFINE r == receipts[p]
<1>1. /\ etags \in [Paths -> Nat]
      /\ etags[p] \in Nat
      /\ receipts \in [Paths -> Receipts \cup {NoReceipt}]
      /\ requests \in [Paths -> Nat] /\ effects \in [Paths -> Nat]
      /\ next.attemptCount \in Nat
      /\ Exists(p) => r \in Receipts /\ r.attemptCount \in Nat
  BY MaxAttemptsAssumption DEF TypeInv, TypeOK, Exists, Receipts, ReceiptOf
<1>2. /\ receipts'[p] = next /\ etags'[p] = etags[p] + 1
      /\ \A q \in Paths : q # p => receipts'[q] = receipts[q] /\ etags'[q] = etags[q]
  BY <1>1 DEF ReplaceReceipt
<1>3. /\ Exists(p)'
      /\ \A q \in Paths : q # p => (Exists(q)' <=> Exists(q))
  BY <1>2, NoReceiptFact DEF Exists
<1>4. Follows(p, next) /\ next.stateVersion = etags[p] + 1
  BY DEF GoodWrite
<1>5. next.status \in ReceiptStatus
  BY DEF Receipts, ReceiptOf
<1>6. (VersionIsETag /\ AtMostOneEffect)'
  BY <1>2, <1>3, <1>4 DEF JournalInv, VersionIsETag, AtMostOneEffect
<1>7. JournalTruthful'
  <2>1. /\ next.status \in Delivered => effects[p] = 1
        /\ next.status \in {"CLAIMED", "RETRYABLE", "FAILED"} => effects[p] = 0
    BY <1>4, <1>5 DEF JournalInv, JournalTruthful, Follows
  <2>2. QED
    BY <1>2, <1>3, <2>1 DEF JournalInv, JournalTruthful
<1>8. AttemptBudget'
  <2>1. /\ requests[p] <= next.attemptCount
        /\ next.status = "CLAIMED" => requests[p] < next.attemptCount
    BY <1>1, <1>4 DEF JournalInv, AttemptBudget, Follows
  <2>2. QED
    BY <1>2, <1>3, <2>1 DEF JournalInv, AttemptBudget
<1>9. ASSUME NEW v \in Workers, HasTicket(v)'
      PROVE  \/ v # c /\ HasTicket(v) /\ Path(v)' = Path(v) /\ Ticket(v)' = Ticket(v)
             \/ v = c /\ Path(v)' = p /\ Ticket(v)' = etags[p] + 1
  <2>1. CASE v # c
    BY <1>9, <2>1, SameWorker
  <2>2. CASE v = c
    BY <1>4, <1>9, <2>2 DEF HasTicket, Ticket
  <2>3. QED
    BY <2>1, <2>2
<1>10. ASSUME NEW q \in Paths, NEW etag \in Nat, NEW n, GoodWrite(q, etag, n)
       PROVE  GoodWrite(q, etag, n)'
  <2>1. CASE q = p
    BY <1>1, <1>2, <1>10, <2>1 DEF GoodWrite
  <2>2. CASE q # p
    BY <1>2, <1>3, <1>9, <1>10, <2>2 DEF GoodWrite, Follows, MaySend
  <2>3. QED
    BY <2>1, <2>2
<1>11. GoodWrites'
  <2>1. ASSUME NEW x \in late' PROVE GoodWrite(x.path, x.etag, x.receipt)'
    BY <1>10 DEF JournalInv, GoodWrites, TypeInv, TypeOK, Write
  <2>2. ASSUME NEW w \in Workers, worker'[w].pc = "upload"
        PROVE  /\ GoodWrite(Path(w), worker[w].etag, worker[w].next)'
               /\ worker'[w].step = "start" => worker'[w].next.status = "SEND_STARTED"
    <3>1. worker'[w] = worker[w] /\ Path(w)' = Path(w)
      BY <2>2, SameWorker
    <3>2. Path(w) \in Paths /\ worker[w].etag \in Nat
      BY <2>2, <3>1, WorkerFacts DEF OnRow, WorkerState
    <3>3. QED
      BY <1>10, <2>2, <3>1, <3>2 DEF JournalInv, GoodWrites
  <2>3. QED
    BY <2>1, <2>2 DEF GoodWrites
<1>12. GoodWorkers'
  <2>1. ASSUME NEW w \in Workers, worker'[w].pc = "reread" PROVE GoodReread(w)'
    <3>1. CASE w = c
      <4>1. next.status = "SEND_STARTED" => effects[p] = 0 /\ requests[p] < next.attemptCount
        BY <1>1, <1>4
        DEF JournalInv, JournalTruthful, AttemptBudget, Follows, NoReceipt, Exists
      <4>2. QED
        BY <1>1, <1>2, <1>4, <2>1, <3>1, <4>1 DEF GoodReread
    <3>2. CASE w # c
      <4>1. worker'[w] = worker[w] /\ Path(w)' = Path(w)
        BY <3>2, SameWorker
      <4>2. GoodReread(w) /\ Path(w) \in Paths /\ worker[w].next \in Receipts
        BY <2>1, <4>1, WorkerFacts DEF JournalInv, GoodWorkers, OnRow, ControlOK
      <4>3. worker[w].next.stateVersion \in Nat
        BY <4>2 DEF Receipts, ReceiptOf
      <4>4. QED
        BY <1>1, <1>2, <4>1, <4>2, <4>3 DEF GoodReread
    <3>3. QED
      BY <3>1, <3>2
  <2>2. ASSUME NEW w \in Workers, worker'[w].pc = "send" PROVE GoodSend(w)'
    <3>1. worker'[w] = worker[w] /\ Path(w)' = Path(w)
      BY <2>2, SameWorker
    <3>2. GoodSend(w) /\ Path(w) \in Paths /\ worker[w].etag \in Nat
      BY <2>2, <3>1, WorkerFacts DEF JournalInv, GoodWorkers, OnRow, WorkerState
    <3>3. CASE Path(w) # p
      BY <1>2, <1>3, <3>1, <3>2, <3>3 DEF GoodSend
    <3>4. CASE Path(w) = p
      \* the sender's version is current, and only UNKNOWN can follow it
      <4>1. Exists(p) /\ ~terminal(r)
        BY <1>4, <3>2, <3>4 DEF GoodSend, Follows
      <4>2. /\ etags[p] = worker[w].etag
            /\ r = worker[w].stored
            /\ r.status = "SEND_STARTED"
        BY <3>2, <3>4, <4>1 DEF GoodSend, terminal, Terminal
      <4>3. MaySend(w, p, etags[p])
        BY <2>2, <3>1, <3>4, <4>2 DEF MaySend, HasTicket, Ticket
      <4>4. next.status \notin {"RETRYABLE", "FAILED", "ACCEPTED", "SIMULATED"}
        BY <4>3 DEF GoodWrite
      <4>5. next.status = "UNKNOWN"
        BY <1>4, <1>5, <4>1, <4>2, <4>4 DEF Follows, ReceiptStatus
      <4>6. next.attemptCount = r.attemptCount
        BY <1>4, <4>5 DEF Follows
      <4>7. QED
        BY <1>2, <1>3, <3>1, <3>2, <3>4, <4>2, <4>5, <4>6 DEF GoodSend
    <3>5. QED
      BY <3>3, <3>4
  <2>3. QED
    BY <2>1, <2>2 DEF GoodWorkers
<1>13. OneSender'
  <2>1. SUFFICES ASSUME NEW v \in Workers, NEW w \in Workers, HasTicket(v)', HasTicket(w)',
                        Path(v)' = Path(w)', Ticket(v)' = Ticket(w)'
                 PROVE  v = w
    BY DEF OneSender
  <2>2. ASSUME NEW u \in Workers, HasTicket(u), Path(u) = p PROVE Ticket(u) # etags[p] + 1
    BY <1>1, <2>2, TicketBound
  <2>3. QED
    BY <1>9, <2>1, <2>2 DEF JournalInv, OneSender
<1>14. QED
  BY <1>6, <1>7, <1>8, <1>11, <1>12, <1>13 DEF JournalInv

(***************************************************************************)
(* c has read back its own SEND_STARTED and goes on to call the provider.  *)
(***************************************************************************)
LEMMA StartSending ==
  ASSUME TypeInv, JournalInv, NEW c \in Workers,
         worker[c].pc = "reread", worker[c].step = "start",
         receipts[Path(c)] \in Receipts,
         receipts[Path(c)].stateVersion = worker[c].next.stateVersion,
         Become(c, SendState(c, receipts[Path(c)], etags[Path(c)])),
         UNCHANGED <<receipts, etags, late, requests, effects>>
  PROVE  JournalInv'
<1> DEFINE p == Path(c)
           r == receipts[p]
           s == SendState(c, r, etags[p])
<1>1. p \in Paths /\ worker[c] \in WorkerState /\ etags[p] \in Nat
  BY WorkerFacts DEF OnRow, TypeInv, TypeOK
<1>2. /\ s.pc = "send" /\ s.stored = r /\ s.etag = etags[p]
      /\ s.entry = worker[c].entry /\ s.row = worker[c].row
  BY <1>1 DEF SendState, WorkerState
<1>3. worker'[c] = s /\ \A v \in Workers \ {c} : worker'[v] = worker[v]
  BY DEF Become, TypeInv, TypeOK
<1> HIDE DEF s
<1>4. Path(c)' = p
  BY <1>2, <1>3 DEF Path, Message
<1>5. Exists(p) /\ etags[p] = r.stateVersion
  BY <1>1, NoReceiptFact DEF JournalInv, VersionIsETag, Exists
<1>6. /\ r.status = "SEND_STARTED"
      /\ effects[p] = 0
      /\ requests[p] < r.attemptCount
  BY <1>5 DEF JournalInv, GoodWorkers, GoodReread
<1>7. ASSUME NEW v \in Workers
      PROVE  /\ HasTicket(v)' <=> HasTicket(v)
             /\ HasTicket(v) => Path(v)' = Path(v) /\ Ticket(v)' = Ticket(v)
  <2>1. CASE v = c
    BY <1>2, <1>3, <1>4, <1>5, <2>1 DEF HasTicket, Ticket
  <2>2. CASE v # c
    BY <1>3, <2>2, SameWorker
  <2>3. QED
    BY <2>1, <2>2
<1>8. (VersionIsETag /\ AtMostOneEffect /\ JournalTruthful /\ AttemptBudget)'
  BY DEF JournalInv, VersionIsETag, AtMostOneEffect, JournalTruthful, AttemptBudget, Exists
<1>9. ASSUME NEW q, NEW etag, NEW n, GoodWrite(q, etag, n) PROVE GoodWrite(q, etag, n)'
  BY <1>7, <1>9 DEF GoodWrite, Follows, Exists, MaySend
<1>10. GoodWrites'
  <2>1. ASSUME NEW w \in Workers, worker'[w].pc = "upload"
        PROVE  worker'[w] = worker[w] /\ Path(w)' = Path(w)
    BY <1>2, <1>3, <2>1, SameWorker
  <2>2. QED
    BY <1>9, <2>1 DEF JournalInv, GoodWrites
<1>11. GoodWorkers'
  <2>1. GoodSend(c)'
    BY <1>2, <1>3, <1>4, <1>5, <1>6 DEF GoodSend, Exists
  <2>2. ASSUME NEW w \in Workers, w # c
        PROVE  /\ worker'[w].pc = "reread" => GoodReread(w)'
               /\ worker'[w].pc = "send" => GoodSend(w)'
    <3>1. worker'[w] = worker[w] /\ Path(w)' = Path(w)
      BY <1>3, <2>2, SameWorker
    <3>2. QED
      BY <3>1 DEF JournalInv, GoodWorkers, GoodReread, GoodSend, Exists
  <2>3. QED
    BY <1>2, <1>3, <2>1, <2>2 DEF GoodWorkers
<1>12. OneSender'
  BY <1>7 DEF JournalInv, OneSender
<1>13. QED
  BY <1>8, <1>10, <1>11, <1>12 DEF JournalInv

(***************************************************************************)
(* c calls the provider, or gives up before the call, and begins to record *)
(* the outcome, or returns without a record.                               *)
(***************************************************************************)
LEMMA SendStep ==
  ASSUME TypeInv, JournalInv, NEW c \in Workers, worker[c].pc = "send",
         NEW accepted \in BOOLEAN,
         \/ Requested(Path(c), accepted)
         \/ ~accepted /\ UNCHANGED <<requests, effects>>,
         \/ Moves(c, Quiet)
         \/ \E next \in Receipts, delay \in Nat :
              /\ Outcome(worker[c].stored, next, accepted)
              /\ Become(c, CommitState(c, next, delay)),
         UNCHANGED <<receipts, etags, late>>
  PROVE  JournalInv'
<1> PICK p : p = Path(c)
  OBVIOUS
<1> PICK r : r = worker[c].stored
  OBVIOUS
<1> PICK etag : etag = worker[c].etag
  OBVIOUS
<1>1. /\ p \in Paths /\ worker[c] \in WorkerState /\ etag \in Nat
      /\ r \in Receipts /\ r.attemptCount \in Nat
      /\ effects \in [Paths -> Nat] /\ requests \in [Paths -> Nat]
      /\ etags[p] \in Nat
  <2>1. p \in Paths /\ worker[c] \in WorkerState /\ ControlOK(worker[c])
    BY WorkerFacts DEF OnRow
  <2>2. etag \in Nat
    BY <2>1 DEF WorkerState
  <2>3. r \in Receipts
    BY <2>1 DEF ControlOK
  <2>4. r.attemptCount \in Nat
    BY <2>3, MaxAttemptsAssumption DEF Receipts, ReceiptOf
  <2>5. effects \in [Paths -> Nat] /\ requests \in [Paths -> Nat] /\ etags \in [Paths -> Nat]
    BY DEF TypeInv, TypeOK
  <2>6. QED
    BY <2>1, <2>2, <2>3, <2>4, <2>5
<1>2. /\ r.stateVersion = etag
      /\ r.status = "SEND_STARTED"
      /\ Exists(p)
      /\ effects[p] = 0
      /\ requests[p] < r.attemptCount
      /\ receipts[p].attemptCount = r.attemptCount
      /\ \/ etags[p] = etag /\ receipts[p] = r
         \/ etags[p] = etag + 1 /\ receipts[p].status = "UNKNOWN"
  BY DEF JournalInv, GoodWorkers, GoodSend
<1>3. /\ effects'[p] = IF accepted THEN 1 ELSE 0
      /\ requests'[p] \in Nat /\ requests'[p] <= r.attemptCount
      /\ \A q \in Paths : q # p => effects'[q] = effects[q] /\ requests'[q] = requests[q]
  <2>1. CASE Requested(p, accepted)
    <3>1. requests'[p] = requests[p] + 1 /\ effects'[p] = IF accepted THEN effects[p] + 1 ELSE effects[p]
      BY <1>1, <2>1 DEF Requested
    <3>2. \A q \in Paths : q # p => effects'[q] = effects[q] /\ requests'[q] = requests[q]
      BY <1>1, <2>1 DEF Requested
    <3>3. requests[p] \in Nat
      BY <1>1
    <3>4. effects[p] = 0 /\ requests[p] < r.attemptCount /\ r.attemptCount \in Nat
      BY <1>1, <1>2
    <3>5. QED
      BY <3>1, <3>2, <3>3, <3>4
  <2>2. CASE ~accepted /\ UNCHANGED <<requests, effects>>
    BY <1>1, <1>2, <2>2, SMTT(30)
  <2>3. QED
    BY <2>1, <2>2
<1>4. receipts[p].status \in {"SEND_STARTED", "UNKNOWN"}
  BY <1>2
<1>5. PICK s \in GoodStates :
        /\ worker' = [worker EXCEPT ![c] = s]
        /\ s.pc \notin {"reread", "send"}
        /\ s.pc = "upload" =>
             /\ s.entry = worker[c].entry /\ s.row = worker[c].row
             /\ s.etag = etag /\ s.step = "commit"
             /\ Outcome(r, s.next, accepted)
  <2>1. CASE Moves(c, Quiet)
    BY <2>1 DEF Moves, Become, Quiet
  <2>2. ASSUME NEW next \in Receipts, NEW delay \in Nat,
               Outcome(r, next, accepted), Become(c, CommitState(c, next, delay))
        PROVE  \E s \in GoodStates :
                 /\ worker' = [worker EXCEPT ![c] = s]
                 /\ s.pc \notin {"reread", "send"}
                 /\ s.pc = "upload" =>
                      /\ s.entry = worker[c].entry /\ s.row = worker[c].row
                      /\ s.etag = etag /\ s.step = "commit"
                      /\ Outcome(r, s.next, accepted)
    <3> DEFINE s == CommitState(c, next, delay)
    <3>1. s \in GoodStates
      BY CommitStateGood
    <3>2. /\ s.pc = "upload" /\ s.entry = worker[c].entry /\ s.row = worker[c].row
          /\ s.etag = etag /\ s.step = "commit" /\ s.next = next
      BY <1>1 DEF CommitState, Put, WorkerState
    <3> HIDE DEF s
    <3>3. worker' = [worker EXCEPT ![c] = s]
      BY <2>2 DEF s, Become
    <3>4. QED
      BY <2>2, <3>1, <3>2, <3>3
  <2>3. QED
    BY <2>1, <2>2
<1>6. worker'[c] = s /\ \A v \in Workers \ {c} : worker'[v] = worker[v]
  BY <1>5 DEF TypeInv, TypeOK
<1>7. ASSUME NEW v \in Workers, HasTicket(v)'
      PROVE  v # c /\ HasTicket(v) /\ Path(v)' = Path(v) /\ Ticket(v)' = Ticket(v)
  <2>1. v # c
    BY <1>5, <1>6, <1>7 DEF HasTicket
  <2>2. QED
    BY <1>6, <1>7, <2>1, SameWorker
<1>8. HasTicket(c) /\ Ticket(c) = etag /\ MaySend(c, p, etag)
  BY DEF HasTicket, Ticket, MaySend
<1>9. ASSUME NEW v \in Workers, HasTicket(v)' PROVE ~(Path(v) = p /\ Ticket(v) = etag)
  BY <1>7, <1>8, <1>9 DEF JournalInv, OneSender
<1>10. (VersionIsETag /\ AtMostOneEffect)'
  BY <1>3 DEF JournalInv, VersionIsETag, AtMostOneEffect, Exists
<1>11. JournalTruthful'
  <2>1. ASSUME NEW q \in Paths
        PROVE  /\ Exists(q)' /\ receipts'[q].status \in Delivered => effects'[q] = 1
               /\ ~Exists(q)' \/ receipts'[q].status \in {"CLAIMED", "RETRYABLE", "FAILED"}
                    => effects'[q] = 0
    <3>1. CASE q = p
      BY <1>2, <1>4, <3>1 DEF Exists, Delivered
    <3>2. CASE q # p
      BY <1>3, <3>2 DEF JournalInv, JournalTruthful, Exists
    <3>3. QED
      BY <3>1, <3>2
  <2>2. QED
    BY <2>1 DEF JournalTruthful
<1>12. AttemptBudget'
  BY <1>2, <1>3, <1>4 DEF JournalInv, AttemptBudget, Exists
<1>13. ASSUME NEW q \in Paths, NEW g \in Nat, NEW n \in Receipts, GoodWrite(q, g, n)
       PROVE  GoodWrite(q, g, n)'
  <2>1. CASE q # p
    BY <1>3, <1>7, <1>13, <2>1 DEF GoodWrite, Follows, Exists, MaySend
  <2>2. CASE q = p /\ g # etags[p]
    BY <1>13, <2>2 DEF GoodWrite
  <2>3. CASE q = p /\ g = etags[p]
    \* only the UNKNOWN of a worker that judged this send stale
    <3>1. Follows(p, n)
      BY <1>13, <2>3 DEF GoodWrite
    <3>2. etags[p] = etag /\ receipts[p] = r
      BY <1>2, <3>1 DEF Follows, terminal, Terminal
    <3>3. n.status \notin {"RETRYABLE", "FAILED", "ACCEPTED", "SIMULATED"}
      BY <1>8, <1>13, <2>3, <3>2 DEF GoodWrite
    <3>4. n.status = "UNKNOWN"
      BY <1>2, <3>1, <3>2, <3>3 DEF Follows, Receipts, ReceiptOf, ReceiptStatus
    <3>5. Follows(p, n)'
      BY <3>1, <3>4 DEF Follows, Exists, terminal, Delivered
    <3>6. QED
      BY <1>13, <2>3, <3>3, <3>5 DEF GoodWrite
  <2>4. QED
    BY <2>1, <2>2, <2>3
<1>14. ASSUME s.pc = "upload" PROVE GoodWrite(p, etag, s.next)'
  <2>1. Outcome(r, s.next, accepted)
    BY <1>5, <1>14
  <2>2. etag <= etags[p] /\ s.next.stateVersion = etag + 1
    <3>1. etag \in Nat /\ r.stateVersion = etag /\ (etags[p] = etag \/ etags[p] = etag + 1)
      BY <1>1, <1>2
    <3>2. s.next.stateVersion = r.stateVersion + 1
      BY <2>1 DEF Outcome
    <3>3. QED
      BY <3>1, <3>2, SMTT(20)
  <2>3. ASSUME etag = etags[p] PROVE Follows(p, s.next)'
    <3>1. receipts[p] = r
      <4>1. etags[p] # etag + 1
        BY <1>1, <2>3, SMTT(30)
      <4>2. QED
        BY <1>2, <4>1
    <3>2. ~terminal(r) /\ Exists(p)'
      BY <1>2 DEF terminal, Terminal, Delivered, Exists
    <3>3. QED
      <4>1. receipts'[p] = r /\ r.status = "SEND_STARTED" /\ ~terminal(receipts'[p])
        BY <1>2, <3>1, <3>2
      <4>2. /\ s.next.attemptCount = r.attemptCount /\ r.attemptCount \in Nat
            /\ s.next.queueMessageID = r.queueMessageID
        BY <1>1, <2>1 DEF Outcome
      <4>3. \/ s.next.status \in {"ACCEPTED", "SIMULATED"} /\ effects'[p] = 1
            \/ s.next.status = "UNKNOWN"
            \/ s.next.status \in {"RETRYABLE", "FAILED"} /\ effects'[p] = 0
        <5>1. effects'[p] = IF accepted THEN 1 ELSE 0
          BY <1>3
        <5>2. s.next.status \in IF accepted THEN Delivered \cup {"UNKNOWN"} ELSE {"RETRYABLE", "FAILED"}
          BY <2>1 DEF Outcome
        <5> QED
          BY <5>1, <5>2 DEF Delivered
      <4> QED
        BY <3>2, <4>1, <4>2, <4>3 DEF Follows, Delivered
  <2>4. \A v \in Workers : ~MaySend(v, p, etag)'
    BY <1>7, <1>9 DEF MaySend
  <2>5. QED
    BY <2>2, <2>3, <2>4 DEF GoodWrite
<1>15. GoodWrites'
  <2>1. ASSUME NEW x \in late' PROVE GoodWrite(x.path, x.etag, x.receipt)'
    BY <1>13 DEF JournalInv, GoodWrites, TypeInv, TypeOK, Write
  <2>2. ASSUME NEW w \in Workers, worker'[w].pc = "upload"
        PROVE  /\ GoodWrite(Path(w), worker[w].etag, worker[w].next)'
               /\ worker'[w].step = "start" => worker'[w].next.status = "SEND_STARTED"
    <3>1. CASE w = c
      <4>1. Path(c)' = p
        BY <1>5, <1>6, <2>2, <3>1 DEF Path, Message
      <4>2. QED
        BY <1>5, <1>6, <1>14, <2>2, <3>1, <4>1
    <3>2. CASE w # c
      <4>1. worker'[w] = worker[w] /\ Path(w)' = Path(w)
        BY <1>6, <3>2, SameWorker
      <4>2. Path(w) \in Paths /\ worker[w].etag \in Nat /\ worker[w].next \in Receipts
        BY <2>2, <4>1, WorkerFacts DEF OnRow, WorkerState, ControlOK
      <4>3. QED
        BY <1>13, <2>2, <4>1, <4>2 DEF JournalInv, GoodWrites
    <3>3. QED
      BY <3>1, <3>2
  <2>3. QED
    BY <2>1, <2>2 DEF GoodWrites
<1>16. GoodWorkers'
  <2>1. ASSUME NEW w \in Workers, worker'[w].pc \in {"reread", "send"}
        PROVE  w # c /\ worker'[w] = worker[w] /\ Path(w)' = Path(w)
    BY <1>5, <1>6, <2>1, SameWorker
  <2>2. ASSUME NEW w \in Workers, worker'[w].pc = "reread" PROVE GoodReread(w)'
    <3>1. GoodReread(w) /\ worker'[w] = worker[w] /\ Path(w)' = Path(w) /\ Path(w) \in Paths
      BY <2>1, <2>2, WorkerFacts DEF JournalInv, GoodWorkers, OnRow
    <3>2. CASE Path(w) # p
      BY <1>3, <3>1, <3>2 DEF GoodReread
    <3>3. CASE Path(w) = p /\ worker[w].step # "start"
      BY <3>1, <3>3 DEF GoodReread
    <3>4. CASE Path(w) = p /\ worker[w].step = "start"
      \* a second ticket, so not on the version that is stored
      <4>1. HasTicket(w)' /\ Ticket(w) = worker[w].next.stateVersion
        BY <2>2, <3>1, <3>4 DEF HasTicket, Ticket
      <4>2. worker[w].next.stateVersion # etag
        BY <1>9, <3>4, <4>1
      <4>3. worker[w].next.stateVersion # etags[p]
        BY <1>2, <3>1, <3>4, <4>2 DEF GoodReread
      <4>4. QED
        BY <3>1, <3>4, <4>3 DEF GoodReread
    <3>5. QED
      BY <3>2, <3>3, <3>4
  <2>3. ASSUME NEW w \in Workers, worker'[w].pc = "send" PROVE GoodSend(w)'
    <3>1. /\ GoodSend(w) /\ worker'[w] = worker[w]
          /\ Path(w)' = Path(w) /\ Path(w) \in Paths
          /\ worker[w].etag \in Nat
      BY <2>1, <2>3, WorkerFacts DEF JournalInv, GoodWorkers, OnRow, WorkerState
    <3>2. Path(w) # p
      <4>1. SUFFICES ASSUME Path(w) = p PROVE FALSE
        OBVIOUS
      <4>2. HasTicket(w)' /\ Ticket(w) = worker[w].etag
        BY <2>3, <3>1 DEF HasTicket, Ticket
      <4>3. worker[w].etag # etag
        BY <1>9, <4>1, <4>2
      <4>4. QED
        <5>1. /\ \/ etags[p] = worker[w].etag /\ receipts[p] = worker[w].stored
                 \/ etags[p] = worker[w].etag + 1 /\ receipts[p].status = "UNKNOWN"
              /\ worker[w].stored.status = "SEND_STARTED"
          BY <3>1, <4>1 DEF GoodSend
        <5>2. QED
          <6>1. CASE etags[p] = worker[w].etag /\ receipts[p] = worker[w].stored
            <7>1. receipts[p].status # "UNKNOWN"
              BY <5>1, <6>1
            <7>2. QED
              BY <1>2, <4>3, <6>1, <7>1
          <6>2. CASE etags[p] = worker[w].etag + 1 /\ receipts[p].status = "UNKNOWN"
            <7>1. etags[p] = etag + 1
              BY <1>2, <6>2
            <7>2. etag \in Nat /\ worker[w].etag \in Nat
              BY <1>1, <3>1
            <7>3. QED
              BY <4>3, <6>2, <7>1, <7>2, SMTT(30)
          <6>3. QED
            BY <5>1, <6>1, <6>2
    <3>3. QED
      BY <1>3, <3>1, <3>2 DEF GoodSend, Exists
  <2>4. QED
    BY <2>2, <2>3 DEF GoodWorkers
<1>17. OneSender'
  BY <1>7 DEF JournalInv, OneSender
<1>18. QED
  BY <1>10, <1>11, <1>12, <1>15, <1>16, <1>17 DEF JournalInv

------------------------------------------------------------------------------
(***************************************************************************)
(* Every step is one of the above.                                         *)
(***************************************************************************)
LEMMA JournalInit == Init => JournalInv
<1> SUFFICES ASSUME Init PROVE JournalInv
  OBVIOUS
<1> USE DEF Init
<1>1. VersionIsETag /\ AtMostOneEffect /\ JournalTruthful /\ AttemptBudget
  BY DEF VersionIsETag, AtMostOneEffect, JournalTruthful, AttemptBudget, Exists, NoReceipt
<1>2. \A w \in Workers : worker[w].pc = "idle"
  BY DEF Idle
<1>3. GoodWrites /\ GoodWorkers /\ OneSender
  BY <1>2 DEF GoodWrites, GoodWorkers, OneSender, HasTicket
<1>4. QED
  BY <1>1, <1>3 DEF JournalInv

\* A move to a quiet state that touches neither the store nor the provider.
LEMMA QuietStep ==
  ASSUME TypeInv, JournalInv, NEW w \in Workers, Moves(w, Quiet),
         UNCHANGED <<receipts, etags, requests, effects>>,
         \A x \in late' : GoodWrite(x.path, x.etag, x.receipt)
  PROVE  JournalInv'
<1>1. PICK s \in Quiet : worker' = [worker EXCEPT ![w] = s]
  BY DEF Moves, Become
<1>2. worker'[w] = s /\ \A v \in Workers \ {w} : worker'[v] = worker[v]
  BY <1>1 DEF TypeInv, TypeOK
<1>3. s.pc \notin {"upload", "reread", "send"}
  BY DEF Quiet
<1>4. QED
  BY <1>2, <1>3, LocalStep

\* A worker begins a write that follows the stored receipt.
LEMMA BeginWrite ==
  ASSUME TypeInv, JournalInv, NEW w \in Workers, worker[w].pc \in OnRow,
         NEW step, NEW r, NEW next,
         Become(w, Put(w, step, r, etags[Path(w)], next)),
         GoodWrite(Path(w), etags[Path(w)], next),
         step = "start" => next.status = "SEND_STARTED",
         UNCHANGED <<receipts, etags, late, requests, effects>>
  PROVE  JournalInv'
<1> DEFINE s == Put(w, step, r, etags[Path(w)], next)
<1>1. /\ s.pc = "upload" /\ s.entry = worker[w].entry /\ s.row = worker[w].row
      /\ s.etag = etags[Path(w)] /\ s.next = next /\ s.step = step
  BY WorkerFacts DEF Put, WorkerState
<1>2. worker'[w] = s /\ \A v \in Workers \ {w} : worker'[v] = worker[v]
  BY DEF Become, TypeInv, TypeOK
<1> HIDE DEF s
<1>3. Path(w)' = Path(w)
  BY <1>1, <1>2 DEF Path, Message
<1>4. \A x \in late' : GoodWrite(x.path, x.etag, x.receipt)
  BY DEF JournalInv, GoodWrites
<1>5. QED
  BY <1>1, <1>2, <1>3, <1>4, LocalStep

\* What a worker writes over a receipt it found follows that receipt.
LEMMA TakeoverIsGood ==
  ASSUME TypeInv, JournalInv, NEW p \in Paths, receipts[p] \in Receipts,
         NEW next, Takeover(receipts[p], next)
  PROVE  GoodWrite(p, etags[p], next)
<1> DEFINE r == receipts[p]
<1>1. /\ Exists(p)
      /\ etags[p] = r.stateVersion
      /\ etags[p] \in Nat /\ requests[p] \in Nat
      /\ r.attemptCount \in Nat
  BY NoReceiptFact, MaxAttemptsAssumption
  DEF JournalInv, VersionIsETag, TypeInv, TypeOK, Exists, Receipts, ReceiptOf
<1>2. requests[p] <= r.attemptCount
  BY <1>1 DEF JournalInv, AttemptBudget
<1>3. r.status = "RETRYABLE" => effects[p] = 0
  BY <1>1 DEF JournalInv, JournalTruthful
<1>4. Follows(p, next)
  BY <1>1, <1>2, <1>3 DEF Follows, Takeover, terminal, Terminal, Delivered
<1>5. ASSUME next.status \in {"RETRYABLE", "FAILED", "ACCEPTED", "SIMULATED"},
             NEW w \in Workers, MaySend(w, p, etags[p])
      PROVE  FALSE
  <2>1. r.status = "RETRYABLE"
    BY <1>5 DEF Takeover
  <2>2. CASE worker[w].pc = "send"
    BY <1>1, <1>5, <2>1, <2>2 DEF JournalInv, GoodWorkers, GoodSend, MaySend, Ticket
  <2>3. CASE worker[w].pc = "reread" /\ worker[w].step = "start"
    BY <1>5, <2>1, <2>3 DEF JournalInv, GoodWorkers, GoodReread, MaySend, Ticket
  <2>4. QED
    BY <1>5, <2>2, <2>3 DEF MaySend, HasTicket
<1>6. QED
  BY <1>1, <1>4, <1>5, SMTT(30) DEF GoodWrite, Takeover

\* A first claim follows the absence of a receipt.
LEMMA ClaimIsGood ==
  ASSUME TypeInv, JournalInv, NEW p \in Paths, receipts[p] = NoReceipt, NEW m, NEW now
  PROVE  etags[p] = 0 /\ GoodWrite(p, 0, ClaimReceipt(m, now))
<1>1. ~Exists(p) /\ etags[p] = 0 /\ requests[p] = 0
  BY DEF Exists, JournalInv, VersionIsETag, AttemptBudget
<1>2. /\ ClaimReceipt(m, now).status = "CLAIMED"
      /\ ClaimReceipt(m, now).stateVersion = 1
      /\ ClaimReceipt(m, now).attemptCount = 1
  BY DEF ClaimReceipt
<1>3. PICK next : next = ClaimReceipt(m, now)
  OBVIOUS
<1>4. next.status = "CLAIMED" /\ next.stateVersion = 1 /\ next.attemptCount = 1
  BY <1>2, <1>3
<1>5. Follows(p, next)
  BY <1>1, <1>4 DEF Follows, Delivered
<1>6. GoodWrite(p, 0, next)
  BY <1>1, <1>4, <1>5 DEF GoodWrite
<1>7. QED
  BY <1>1, <1>3, <1>6

\* The SEND_STARTED that follows a claim.
LEMMA StartIsGood ==
  ASSUME TypeInv, JournalInv, NEW p \in Paths, receipts[p] \in Receipts,
         receipts[p].status = "CLAIMED", NEW now
  PROVE  /\ GoodWrite(p, etags[p], StartSend(receipts[p], now))
         /\ StartSend(receipts[p], now).status = "SEND_STARTED"
<1> DEFINE r == receipts[p]
           next == StartSend(r, now)
<1>1. Exists(p) /\ etags[p] = r.stateVersion /\ r.attemptCount \in Nat
  BY NoReceiptFact, MaxAttemptsAssumption
  DEF JournalInv, VersionIsETag, Exists, Receipts, ReceiptOf
<1>2. /\ next.status = "SEND_STARTED"
      /\ next.stateVersion = r.stateVersion + 1
      /\ next.attemptCount = r.attemptCount
      /\ next.queueMessageID = r.queueMessageID
  BY DEF StartSend, Receipts, ReceiptOf
<1> HIDE DEF next
<1>3. etags[p] \in Nat
  BY DEF TypeInv, TypeOK
<1>4. ~terminal(r)
  BY DEF terminal, Terminal, Delivered
<1>5. Follows(p, next)
  BY <1>1, <1>2, <1>4, SMTT(30) DEF Follows, Delivered
<1>6. GoodWrite(p, etags[p], next)
  BY <1>1, <1>2, <1>3, <1>5 DEF GoodWrite
<1>7. QED
  BY <1>2, <1>6 DEF next

\* The upload half of a conditional write (Upload).
LEMMA UploadKeeps ==
  ASSUME TypeInv, JournalInv, NEW w \in Workers, Upload(w)
  PROVE  JournalInv'
<1> PICK p : p = Path(w)
  OBVIOUS
<1> PICK next : next = worker[w].next
  OBVIOUS
<1>1. /\ worker[w].pc = "upload" /\ worker[w].pc \in OnRow
      /\ p \in Paths
      /\ next \in Receipts
      /\ worker[w] \in WorkerState
  BY WorkerFacts DEF Upload, OnRow, ControlOK
<1>2. /\ GoodWrite(p, worker[w].etag, next)
      /\ worker[w].step = "start" => next.status = "SEND_STARTED"
  BY <1>1 DEF JournalInv, GoodWrites
<1>3. \A x \in late : GoodWrite(x.path, x.etag, x.receipt)
  BY DEF JournalInv, GoodWrites
<1>4. \A conflict \in BOOLEAN : PutFailed(w, conflict) \in Quiet
  BY <1>1, PutFailedGood
<1>5. UNCHANGED <<requests, effects>>
  BY DEF Upload
<1>6. ASSUME NEW s, Become(w, s)
      PROVE  worker'[w] = s /\ \A v \in Workers \ {w} : worker'[v] = worker[v]
  BY <1>6 DEF Become, TypeInv, TypeOK
<1>7. CASE /\ etags[p] = worker[w].etag
           /\ ReplaceReceipt(p, next)
           /\ UNCHANGED late
           /\ Become(w, [worker[w] EXCEPT !.pc = "reread"])
  <2> DEFINE s == [worker[w] EXCEPT !.pc = "reread"]
  <2>1. /\ s.pc = "reread" /\ s.entry = worker[w].entry /\ s.row = worker[w].row
        /\ s.etag = worker[w].etag /\ s.next = next /\ s.step = worker[w].step
    BY <1>1 DEF WorkerState
  <2>2. worker'[w] = s /\ \A v \in Workers \ {w} : worker'[v] = worker[v]
    BY <1>6, <1>7
  <2> HIDE DEF s
  <2>3. Path(w)' = p
    BY <2>1, <2>2 DEF Path, Message
  <2>4. QED
    BY <1>1, <1>2, <1>5, <1>7, <2>1, <2>2, <2>3, ApplyWrite
<1>8. CASE /\ etags[p] = worker[w].etag
           /\ ReplaceReceipt(p, next)
           /\ UNCHANGED late
           /\ Become(w, PutFailed(w, TRUE))
  <2>1. worker'[w] \in Quiet /\ \A v \in Workers \ {w} : worker'[v] = worker[v]
    BY <1>4, <1>6, <1>8
  <2>2. worker'[w].pc \notin {"upload", "reread", "send"}
    BY <2>1 DEF Quiet
  <2>3. QED
    BY <1>1, <1>2, <1>5, <1>8, <2>1, <2>2, ApplyWrite
<1>9. CASE /\ \E conflict \in BOOLEAN : Become(w, PutFailed(w, conflict))
           /\ UNCHANGED <<receipts, etags>>
           /\ \A x \in late' : \/ x \in late
                               \/ x = [path |-> p, etag |-> worker[w].etag, receipt |-> next]
  <2>1. Moves(w, Quiet)
    BY <1>4, <1>9 DEF Moves
  <2>2. \A x \in late' : GoodWrite(x.path, x.etag, x.receipt)
    BY <1>2, <1>3, <1>9
  <2>3. QED
    BY <1>5, <1>9, <2>1, <2>2, QuietStep
<1>10. QED
  BY <1>7, <1>8, <1>9 DEF Upload, ETagMatches

\* A write whose caller has given up (LateUpload).
LEMMA LateUploadKeeps ==
  ASSUME TypeInv, JournalInv, LateUpload
  PROVE  JournalInv'
<1>1. PICK x \in late :
        /\ late' = late \ {x}
        /\ IF ETagMatches(x.path, x.etag)
           THEN ReplaceReceipt(x.path, x.receipt)
           ELSE UNCHANGED <<receipts, etags>>
        /\ UNCHANGED <<worker, requests, effects>>
  BY DEF LateUpload
<1>2. x.path \in Paths /\ x.receipt \in Receipts /\ GoodWrite(x.path, x.etag, x.receipt)
  BY DEF JournalInv, GoodWrites, TypeInv, TypeOK, Write
<1>3. NoWorker \notin Workers
  BY WorkerAssumption
<1>4. CASE ETagMatches(x.path, x.etag)
  BY <1>1, <1>2, <1>3, <1>4, ApplyWrite DEF ETagMatches
<1>5. CASE ~ETagMatches(x.path, x.etag)
  <2>1. \A y \in late' : GoodWrite(y.path, y.etag, y.receipt)
    BY <1>1 DEF JournalInv, GoodWrites
  <2>2. QED
    BY <1>1, <1>3, <1>5, <2>1, LocalStep
<1>6. QED
  BY <1>4, <1>5

\* Every step keeps the journal invariant (Next).
LEMMA JournalStep == TypeInv /\ JournalInv /\ [Next]_vars => JournalInv'
<1> SUFFICES ASSUME TypeInv, JournalInv, [Next]_vars PROVE JournalInv'
  OBVIOUS
<1>a. \A x \in late : GoodWrite(x.path, x.etag, x.receipt)
  BY DEF JournalInv, GoodWrites
<1>q. ASSUME NEW w \in Workers, Moves(w, Quiet),
             UNCHANGED <<receipts, etags, late, requests, effects>>
      PROVE  JournalInv'
  BY <1>a, <1>q, QuietStep
<1>u. ASSUME UNCHANGED <<receipts, etags, late, worker, requests, effects>>
      PROVE  JournalInv'
  BY <1>a, <1>u, LocalStep, WorkerAssumption
<1>1. ASSUME NEW w \in Workers, NEW e \in Entries, Receive(w, e) PROVE JournalInv'
  BY <1>1, <1>q, ReceiveMoves DEF Receive
<1>2. ASSUME NEW w \in Workers, ReadBlobs(w) PROVE JournalInv'
  BY <1>2, <1>q, ReadBlobsMoves DEF ReadBlobs
<1>3. ASSUME NEW w \in Workers, ScanRow(w) PROVE JournalInv'
  BY <1>3, <1>q, ScanRowMoves DEF ScanRow
<1>4. ASSUME NEW w \in Workers, GetReceipt(w) \/ GetAfterConflict(w) PROVE JournalInv'
  <2> DEFINE p == Path(w)
  <2>1. worker[w].pc \in OnRow /\ p \in Paths
    BY <1>4, WorkerFacts DEF GetReceipt, GetAfterConflict, OnRow
  <2>2. UNCHANGED <<receipts, etags, late, requests, effects>>
    BY <1>4 DEF GetReceipt, GetAfterConflict
  <2>3. CASE /\ receipts[p] = NoReceipt
             /\ Become(w, Put(w, "create", NoReceipt, 0,
                              ClaimReceipt(Message(w), worker[w].now)))
    BY <2>1, <2>2, <2>3, ClaimIsGood, BeginWrite
  <2>4. ASSUME NEW step \in Steps \ {"start"}, NEW next \in Receipts,
               receipts[p] \in Receipts, Takeover(receipts[p], next),
               Become(w, Put(w, step, receipts[p], etags[p], next))
        PROVE  JournalInv'
    BY <2>1, <2>2, <2>4, TakeoverIsGood, BeginWrite
  <2>5. QED
    BY <1>4, <1>q, <2>2, <2>3, <2>4, GetMoves
<1>5. ASSUME NEW w \in Workers, Upload(w) PROVE JournalInv'
  BY <1>5, UploadKeeps
<1>6. ASSUME NEW w \in Workers, Reread(w) PROVE JournalInv'
  <2> DEFINE p == Path(w)
  <2>1. worker[w].pc = "reread" /\ worker[w].pc \in OnRow /\ p \in Paths
    BY <1>6, WorkerFacts DEF Reread, OnRow
  <2>2. UNCHANGED <<receipts, etags, late, requests, effects>>
    BY <1>6 DEF Reread
  <2>3. CASE /\ receipts[p] \in Receipts
             /\ receipts[p].status = "CLAIMED"
             /\ Become(w, Put(w, "start", receipts[p], etags[p],
                              StartSend(receipts[p], worker[w].now)))
    BY <2>1, <2>2, <2>3, StartIsGood, BeginWrite
  <2>4. CASE /\ receipts[p] \in Receipts
             /\ receipts[p].stateVersion = worker[w].next.stateVersion
             /\ worker[w].step = "start"
             /\ Become(w, SendState(w, receipts[p], etags[p]))
    BY <2>1, <2>2, <2>4, StartSending
  <2>5. QED
    BY <1>6, <1>q, <2>2, <2>3, <2>4, RereadMoves
<1>7. ASSUME NEW w \in Workers, Send(w) PROVE JournalInv'
  <2>1. worker[w].pc = "send" /\ UNCHANGED <<receipts, etags, late>>
    BY <1>7 DEF Send
  <2>2. QED
    BY <1>7, <2>1, SendMoves, SendStep
<1>8. ASSUME NEW w \in Workers, Settle(w) \/ Interrupt(w) PROVE JournalInv'
  BY <1>8, <1>q, IdleGood DEF Settle, Interrupt, Moves
<1>9. CASE LateUpload
  BY <1>9, LateUploadKeeps
<1>10. CASE (\E e \in Entries : LockExpires(e)) \/ Tick \/ UNCHANGED vars
  BY <1>10, <1>u DEF LockExpires, Tick, vars
<1>11. QED
  BY <1>1, <1>2, <1>3, <1>4, <1>5, <1>6, <1>7, <1>8, <1>9, <1>10 DEF Next, WorkerStep

------------------------------------------------------------------------------
(***************************************************************************)
(* The inductive invariant holds in every reachable state.                 *)
(***************************************************************************)
THEOREM Inductive == Spec => []IInv
<1>1. Init => IInv
  BY TypeInit, JournalInit DEF IInv
<1>2. IInv /\ [Next]_vars => IInv'
  BY TypeStep, JournalStep DEF IInv
<1>3. QED
  BY <1>1, <1>2, PTL DEF Spec

(***************************************************************************)
(* At most one request per recipient and operation is accepted or may have *)
(* been, whatever crashes, redeliveries and late writes occur.             *)
(***************************************************************************)
THEOREM NotMailedTwice == Spec => []AtMostOneEffect
<1>1. IInv => AtMostOneEffect
  BY DEF IInv, JournalInv
<1>2. QED
  BY <1>1, Inductive, PTL

(***************************************************************************)
(* Stored receipts never contradict what the provider has seen.            *)
(***************************************************************************)
THEOREM JournalIsTruthful == Spec => []JournalTruthful
<1>1. IInv => JournalTruthful
  BY DEF IInv, JournalInv
<1>2. QED
  BY <1>1, Inductive, PTL

(***************************************************************************)
(* The provider never sees more requests than the stored receipt counts    *)
(* attempts, hence, by TypeCorrect, never more than MaxAttempts.           *)
(***************************************************************************)
THEOREM BudgetKept == Spec => []AttemptBudget
<1>1. IInv => AttemptBudget
  BY DEF IInv, JournalInv
<1>2. QED
  BY <1>1, Inductive, PTL

(***************************************************************************)
(* Comparing versions is enough for put to recognise its own write.        *)
(***************************************************************************)
THEOREM VersionIdentifiesWrite == Spec => []RereadIsOwnWrite
<1>1. IInv => RereadIsOwnWrite
  <2> SUFFICES ASSUME IInv, NEW w \in Workers, worker[w].pc = "reread",
                      Exists(Path(w)),
                      receipts[Path(w)].stateVersion = worker[w].next.stateVersion
               PROVE  receipts[Path(w)] = worker[w].next
    BY DEF RereadIsOwnWrite
  <2>1. Path(w) \in Paths
    BY WorkerFacts DEF IInv, OnRow
  <2>2. QED
    BY <2>1 DEF IInv, JournalInv, VersionIsETag, GoodWorkers, GoodReread
<1>2. QED
  BY <1>1, Inductive, PTL

\* Only a worker about to send makes a request, and only for its own row (Send).
LEMMA WhoRequests ==
  ASSUME IInv, [Next]_vars, NEW p \in Paths, requests'[p] # requests[p]
  PROVE  \E w \in Workers : worker[w].pc = "send" /\ Path(w) = p /\ GoodSend(w)
<1>1. PICK w \in Workers : Send(w)
  BY DEF Next, WorkerStep, vars, Receive, ReadBlobs, ScanRow, GetReceipt,
         GetAfterConflict, Upload, Reread, Settle, Interrupt, LockExpires, LateUpload, Tick
<1>2. worker[w].pc = "send" /\ GoodSend(w) /\ Path(w) \in Paths
  BY <1>1, WorkerFacts DEF Send, IInv, JournalInv, GoodWorkers, OnRow
<1>3. \/ UNCHANGED requests
      \/ requests' = [requests EXCEPT ![Path(w)] = @ + 1]
  BY <1>1, SendMoves DEF IInv, Requested
<1>4. Path(w) = p
  BY <1>2, <1>3 DEF IInv, TypeInv, TypeOK
<1>5. QED
  BY <1>2, <1>4

(***************************************************************************)
(* Once a request may have been accepted, no further request is made.      *)
(***************************************************************************)
THEOREM NeverResent == Spec => NoResend
<1>1. ASSUME IInv, [Next]_vars
      PROVE  [\A p \in Paths : effects[p] > 0 => requests'[p] = requests[p]]_vars
  BY <1>1, WhoRequests DEF GoodSend
<1>2. QED
  BY <1>1, Inductive, PTL DEF Spec, NoResend

(***************************************************************************)
(* SEND_STARTED is stored before the provider is called.                   *)
(***************************************************************************)
THEOREM BoundaryIsDurable == Spec => BoundaryBeforeSend
<1>1. ASSUME IInv, [Next]_vars
      PROVE  [\A p \in Paths : requests'[p] # requests[p] =>
                Exists(p) /\ receipts[p].status \in {"SEND_STARTED", "UNKNOWN"}]_vars
  <2>1. ASSUME NEW p \in Paths, requests'[p] # requests[p]
        PROVE  Exists(p) /\ receipts[p].status \in {"SEND_STARTED", "UNKNOWN"}
    <3>1. PICK w \in Workers : Path(w) = p /\ GoodSend(w)
      BY <1>1, <2>1, WhoRequests
    <3>2. QED
      BY <3>1 DEF GoodSend
  <2>2. QED
    BY <2>1
<1>2. QED
  BY <1>1, Inductive, PTL DEF Spec, BoundaryBeforeSend

\* Only a good write with the current ETag changes a receipt (Upload, LateUpload).
LEMMA WhoWrites ==
  ASSUME IInv, [Next]_vars, NEW p \in Paths, receipts'[p] # receipts[p]
  PROVE  GoodWrite(p, etags[p], receipts'[p])
<1>1. CASE \E w \in Workers : Upload(w)
  <2>1. PICK w \in Workers : Upload(w)
    BY <1>1
  <2>2. /\ GoodWrite(Path(w), worker[w].etag, worker[w].next)
        /\ Path(w) \in Paths
    BY <2>1, WorkerFacts DEF Upload, IInv, JournalInv, GoodWrites, OnRow
  <2>3. etags[Path(w)] = worker[w].etag /\ ReplaceReceipt(Path(w), worker[w].next)
    BY <2>1 DEF Upload, ETagMatches
  <2>4. QED
    BY <2>2, <2>3 DEF ReplaceReceipt, IInv, TypeInv, TypeOK
<1>2. CASE LateUpload
  <2>1. PICK x \in late : etags[x.path] = x.etag /\ ReplaceReceipt(x.path, x.receipt)
    BY <1>2 DEF LateUpload, ETagMatches
  <2>2. x.path \in Paths /\ GoodWrite(x.path, x.etag, x.receipt)
    BY DEF IInv, TypeInv, TypeOK, Write, JournalInv, GoodWrites
  <2>3. QED
    BY <2>1, <2>2 DEF ReplaceReceipt, IInv, TypeInv, TypeOK
<1>3. QED
  BY <1>1, <1>2
  DEF Next, WorkerStep, vars, Receive, ReadBlobs, ScanRow, GetReceipt,
      GetAfterConflict, Reread, Send, Settle, Interrupt, LockExpires, Tick

(***************************************************************************)
(* Receipts only move forward and nothing is written over a terminal one.  *)
(***************************************************************************)
THEOREM ReceiptsMoveForward == Spec => ReceiptsMonotone
<1>1. ASSUME IInv, [Next]_vars, NEW p \in Paths, Exists(p), receipts'[p] # receipts[p]
      PROVE  /\ ~terminal(receipts[p])
             /\ receipts'[p].stateVersion = receipts[p].stateVersion + 1
             /\ receipts'[p].attemptCount >= receipts[p].attemptCount
             /\ receipts'[p].queueMessageID = receipts[p].queueMessageID
  <2>1. GoodWrite(p, etags[p], receipts'[p])
    BY <1>1, WhoWrites
  <2>2. QED
    BY <1>1, <2>1 DEF GoodWrite, Follows, IInv, JournalInv, VersionIsETag
<1>2. ASSUME IInv, [Next]_vars
      PROVE  [\A p \in Paths : Exists(p) /\ receipts'[p] # receipts[p] =>
                /\ ~terminal(receipts[p])
                /\ receipts'[p].stateVersion = receipts[p].stateVersion + 1
                /\ receipts'[p].attemptCount >= receipts[p].attemptCount
                /\ receipts'[p].queueMessageID = receipts[p].queueMessageID]_vars
  BY <1>1, <1>2
<1>3. QED
  BY <1>2, Inductive, PTL DEF Spec, ReceiptsMonotone

------------------------------------------------------------------------------
(***************************************************************************)
(* The life of a receipt is finite.                                        *)
(***************************************************************************)
\* What a worker in state s is writing, or sending for, is accounted for.
AccountedState(s) ==
  /\ s.pc \in {"upload", "reread"} => Accounted(s.next)
  /\ s.pc = "send" => Accounted(s.stored)

\* Every transition of a receipt leads to a status, or an attempt, that accounts for it.
LEMMA TransitionsAccounted ==
  ASSUME NEW r \in Receipts, Accounted(r), NEW next \in Receipts
  PROVE  /\ Takeover(r, next) => Accounted(next)
         /\ \A accepted \in BOOLEAN : Outcome(r, next, accepted) => Accounted(next)
         /\ /\ r.status = "CLAIMED" /\ next.status = "SEND_STARTED"
            /\ next.stateVersion = r.stateVersion + 1
            /\ next.attemptCount = r.attemptCount
            => Accounted(next)
<1>1. /\ r.stateVersion \in Nat /\ next.stateVersion \in Nat
      /\ r.attemptCount \in Nat /\ next.attemptCount \in Nat
  BY MaxAttemptsAssumption DEF Receipts, ReceiptOf
<1>2. r.stateVersion <= 3 * (r.attemptCount - 1) + Rank(r.status)
  BY DEF Accounted
<1>3. /\ Rank("CLAIMED") = 1 /\ Rank("SEND_STARTED") = 2 /\ Rank("RETRYABLE") = 3
      /\ Rank("FAILED") = 4 /\ Rank("UNKNOWN") = 4
      /\ Rank("ACCEPTED") = 4 /\ Rank("SIMULATED") = 4
  BY DEF Rank
<1>4. Takeover(r, next) => Accounted(next)
  BY <1>1, <1>2, <1>3 DEF Takeover, Accounted
<1>5. ASSUME NEW accepted \in BOOLEAN, Outcome(r, next, accepted) PROVE Accounted(next)
  <2>1. /\ r.status = "SEND_STARTED" /\ next.stateVersion = r.stateVersion + 1
        /\ next.attemptCount = r.attemptCount
        /\ next.status \in {"ACCEPTED", "SIMULATED", "UNKNOWN", "RETRYABLE", "FAILED"}
    BY <1>5 DEF Outcome, Delivered
  <2>2. QED
    BY <1>1, <1>2, <1>3, <2>1 DEF Accounted
<1>6. ASSUME r.status = "CLAIMED", next.status = "SEND_STARTED",
             next.stateVersion = r.stateVersion + 1, next.attemptCount = r.attemptCount
      PROVE  Accounted(next)
  BY <1>1, <1>2, <1>3, <1>6 DEF Accounted
<1>7. QED
  BY <1>4, <1>5, <1>6

\* A claim and the send that follows it (ClaimReceipt, StartSend).
LEMMA ClaimAccounted ==
  /\ \A m, now : Accounted(ClaimReceipt(m, now))
  /\ \A r \in Receipts, now \in Nat :
       Accounted(r) /\ r.status = "CLAIMED" => Accounted(StartSend(r, now))
<1>1. ASSUME NEW m, NEW now PROVE Accounted(ClaimReceipt(m, now))
  BY DEF ClaimReceipt, Accounted, Rank
<1>2. ASSUME NEW r \in Receipts, NEW now \in Nat, Accounted(r), r.status = "CLAIMED"
      PROVE  Accounted(StartSend(r, now))
  <2>1. /\ StartSend(r, now).status = "SEND_STARTED"
        /\ StartSend(r, now).stateVersion = r.stateVersion + 1
        /\ StartSend(r, now).attemptCount = r.attemptCount
    BY DEF StartSend, Receipts, ReceiptOf
  <2>2. QED
    BY <1>2, <2>1, TransitionsTyped, TransitionsAccounted
<1>3. QED
  BY <1>1, <1>2

\* One worker moves, and the receipts and pending writes are accounted for.
LEMMA AccountMoves ==
  ASSUME TypeInv, AccountInv, NEW w \in Workers, NEW s, Become(w, s), AccountedState(s),
         \A p \in Paths : Exists(p)' => Accounted(receipts'[p]),
         \A x \in late' : Accounted(x.receipt)
  PROVE  AccountInv'
<1>1. worker'[w] = s /\ \A v \in Workers \ {w} : worker'[v] = worker[v]
  BY DEF Become, TypeInv, TypeOK
<1>2. ASSUME NEW v \in Workers PROVE AccountedState(worker'[v])
  BY <1>1 DEF AccountInv, AccountedState
<1>3. QED
  BY <1>2 DEF AccountInv, AccountedState

\* A write over the receipt of p (ReplaceReceipt).
LEMMA ReplaceAccounted ==
  ASSUME TypeInv, AccountInv, NEW p \in Paths, NEW r, Accounted(r), ReplaceReceipt(p, r)
  PROVE  \A q \in Paths : Exists(q)' => Accounted(receipts'[q])
<1>1. receipts' = [receipts EXCEPT ![p] = r] /\ p \in DOMAIN receipts
  BY DEF ReplaceReceipt, TypeInv, TypeOK
<1>2. ASSUME NEW q \in Paths, Exists(q)' PROVE Accounted(receipts'[q])
  <2>1. CASE q = p
    BY <1>1, <2>1
  <2>2. CASE q # p
    BY <1>1, <1>2, <2>2 DEF AccountInv, Exists
  <2>3. QED
    BY <2>1, <2>2
<1>3. QED
  BY <1>2

\* A quiet worker writes nothing.
LEMMA QuietAccounted == ASSUME NEW s \in Quiet PROVE AccountedState(s)
  BY DEF Quiet, AccountedState

\* The start of an accounted write (Put, CommitState).
LEMMA PutAccounted ==
  ASSUME TypeInv, NEW w \in Workers, NEW step, NEW r, NEW etag, NEW delay,
         NEW next, Accounted(next)
  PROVE  /\ AccountedState(Put(w, step, r, etag, next))
         /\ AccountedState([Put(w, step, r, etag, next) EXCEPT !.delay = delay])
<1>1. worker[w] \in WorkerState
  BY WorkerFacts
<1>2. /\ Put(w, step, r, etag, next).pc = "upload"
      /\ Put(w, step, r, etag, next).next = next
      /\ [Put(w, step, r, etag, next) EXCEPT !.delay = delay].pc = "upload"
      /\ [Put(w, step, r, etag, next) EXCEPT !.delay = delay].next = next
  BY <1>1 DEF Put, WorkerState
<1>3. QED
  BY <1>2 DEF AccountedState

\* Every step keeps the account (Next).
LEMMA AccountStep == IInv /\ AccountInv /\ [Next]_vars => AccountInv'
<1> SUFFICES ASSUME IInv, AccountInv, [Next]_vars PROVE AccountInv'
  OBVIOUS
<1>t. TypeInv
  BY DEF IInv
<1>s. ASSUME UNCHANGED receipts, UNCHANGED late
      PROVE  /\ \A p \in Paths : Exists(p)' => Accounted(receipts'[p])
             /\ \A x \in late' : Accounted(x.receipt)
  BY <1>s DEF AccountInv, Exists
<1>m. ASSUME NEW w \in Workers, NEW s, Become(w, s), AccountedState(s),
             UNCHANGED receipts, UNCHANGED late
      PROVE  AccountInv'
  BY <1>t, <1>m, <1>s, AccountMoves
<1>q. ASSUME NEW w \in Workers, Moves(w, Quiet), UNCHANGED receipts, UNCHANGED late
      PROVE  AccountInv'
  BY <1>q, <1>m, QuietAccounted DEF Moves
<1>u. ASSUME UNCHANGED <<receipts, late, worker>> PROVE AccountInv'
  BY <1>u DEF AccountInv, Exists
<1>1. ASSUME NEW w \in Workers, NEW e \in Entries, Receive(w, e) PROVE AccountInv'
  BY <1>1, <1>t, <1>q, ReceiveMoves DEF Receive
<1>2. ASSUME NEW w \in Workers, ReadBlobs(w) PROVE AccountInv'
  BY <1>2, <1>t, <1>q, ReadBlobsMoves DEF ReadBlobs
<1>3. ASSUME NEW w \in Workers, ScanRow(w) PROVE AccountInv'
  BY <1>3, <1>t, <1>q, ScanRowMoves DEF ScanRow
<1>4. ASSUME NEW w \in Workers, GetReceipt(w) \/ GetAfterConflict(w) PROVE AccountInv'
  <2> PICK p : p = Path(w)
    OBVIOUS
  <2>1. UNCHANGED receipts /\ UNCHANGED late /\ p \in Paths
    BY <1>4, <1>t, WorkerFacts DEF GetReceipt, GetAfterConflict, OnRow
  <2>2. CASE Moves(w, Quiet)
    BY <1>q, <2>1, <2>2
  <2>3. CASE Become(w, Put(w, "create", NoReceipt, 0, ClaimReceipt(Message(w), worker[w].now)))
    BY <1>m, <1>t, <2>1, <2>3, ClaimAccounted, PutAccounted
  <2>4. ASSUME receipts[p] \in Receipts, NEW step, NEW next \in Receipts,
               Takeover(receipts[p], next),
               Become(w, Put(w, step, receipts[p], etags[p], next))
        PROVE  AccountInv'
    <3>1. Accounted(receipts[p])
      BY <2>1, <2>4, NoReceiptFact DEF AccountInv, Exists
    <3>2. Accounted(next)
      BY <2>4, <3>1, TransitionsAccounted
    <3>3. QED
      BY <1>m, <1>t, <2>1, <2>4, <3>2, PutAccounted
  <2>5. QED
    BY <1>4, <1>t, <2>2, <2>3, <2>4, GetMoves
<1>5. ASSUME NEW w \in Workers, Upload(w) PROVE AccountInv'
  <2> PICK p : p = Path(w)
    OBVIOUS
  <2> PICK next : next = worker[w].next
    OBVIOUS
  <2>1. /\ worker[w].pc = "upload" /\ worker[w].pc \in OnRow /\ p \in Paths
        /\ Accounted(next) /\ worker[w] \in WorkerState
    BY <1>5, <1>t, WorkerFacts DEF Upload, OnRow, AccountInv
  <2>2. PICK s : /\ Become(w, s)
                 /\ s \in {[worker[w] EXCEPT !.pc = "reread"], PutFailed(w, TRUE), PutFailed(w, FALSE)}
    BY <1>5 DEF Upload
  <2>3. AccountedState(s)
    <3>1. AccountedState(PutFailed(w, TRUE)) /\ AccountedState(PutFailed(w, FALSE))
      BY <1>t, <2>1, PutFailedGood, QuietAccounted
    <3>2. /\ [worker[w] EXCEPT !.pc = "reread"].pc = "reread"
          /\ [worker[w] EXCEPT !.pc = "reread"].next = next
      BY <2>1 DEF WorkerState
    <3>3. AccountedState([worker[w] EXCEPT !.pc = "reread"])
      BY <2>1, <3>2 DEF AccountedState
    <3>4. QED
      BY <2>2, <3>1, <3>3
  <2>4. ReplaceReceipt(p, next) \/ UNCHANGED receipts
    BY <1>5 DEF Upload
  <2>5. \A q \in Paths : Exists(q)' => Accounted(receipts'[q])
    <3>1. UNCHANGED receipts => \A q \in Paths : Exists(q)' => Accounted(receipts'[q])
      BY DEF AccountInv, Exists
    <3>2. QED
      BY <1>t, <2>1, <2>4, <3>1, ReplaceAccounted
  <2>6. late' \subseteq late \cup {[path |-> p, etag |-> worker[w].etag, receipt |-> next]}
    BY <1>5 DEF Upload
  <2>7. \A x \in late' : Accounted(x.receipt)
    BY <2>1, <2>6, SMTT(30) DEF AccountInv
  <2>8. QED
    BY <1>t, <2>2, <2>3, <2>5, <2>7, AccountMoves
<1>6. CASE LateUpload
  <2>1. PICK x \in late :
          /\ late' = late \ {x}
          /\ ReplaceReceipt(x.path, x.receipt) \/ UNCHANGED receipts
          /\ UNCHANGED worker
    BY <1>6 DEF LateUpload
  <2>2. Accounted(x.receipt) /\ x.path \in Paths
    BY <1>t DEF AccountInv, TypeInv, TypeOK, Write
  <2>3. \A q \in Paths : Exists(q)' => Accounted(receipts'[q])
    <3>1. UNCHANGED receipts => \A q \in Paths : Exists(q)' => Accounted(receipts'[q])
      BY DEF AccountInv, Exists
    <3>2. QED
      BY <1>t, <2>1, <2>2, <3>1, ReplaceAccounted
  <2>4. QED
    BY <2>1, <2>3 DEF AccountInv
<1>7. ASSUME NEW w \in Workers, Reread(w) PROVE AccountInv'
  <2> PICK p : p = Path(w)
    OBVIOUS
  <2>1. UNCHANGED receipts /\ UNCHANGED late /\ p \in Paths /\ worker[w] \in WorkerState
    BY <1>7, <1>t, WorkerFacts DEF Reread, OnRow
  <2>2. CASE Moves(w, Quiet)
    BY <1>q, <2>1, <2>2
  <2>3. receipts[p] \in Receipts => Accounted(receipts[p])
    BY <2>1, NoReceiptFact DEF AccountInv, Exists
  <2>4. CASE /\ receipts[p] \in Receipts /\ receipts[p].status = "CLAIMED"
             /\ Become(w, Put(w, "start", receipts[p], etags[p],
                              StartSend(receipts[p], worker[w].now)))
    <3>1. worker[w].now \in Nat
      BY <2>1 DEF WorkerState
    <3>2. Accounted(StartSend(receipts[p], worker[w].now))
      BY <2>3, <2>4, <3>1, ClaimAccounted
    <3>3. QED
      BY <1>m, <1>t, <2>1, <2>4, <3>2, PutAccounted
  <2>5. CASE receipts[p] \in Receipts /\ Become(w, SendState(w, receipts[p], etags[p]))
    <3>1. /\ SendState(w, receipts[p], etags[p]).pc = "send"
          /\ SendState(w, receipts[p], etags[p]).stored = receipts[p]
      BY <2>1 DEF SendState, WorkerState
    <3>2. AccountedState(SendState(w, receipts[p], etags[p]))
      BY <2>3, <2>5, <3>1 DEF AccountedState
    <3>3. QED
      BY <1>m, <2>1, <2>5, <3>2
  <2>6. QED
    BY <1>7, <1>t, <2>2, <2>4, <2>5, RereadMoves
<1>8. ASSUME NEW w \in Workers, Send(w) PROVE AccountInv'
  <2>1. /\ UNCHANGED receipts /\ UNCHANGED late
        /\ worker[w].stored \in Receipts /\ Accounted(worker[w].stored)
    BY <1>8, <1>t, WorkerFacts DEF Send, ControlOK, AccountInv
  <2>2. CASE Moves(w, Quiet)
    BY <1>q, <2>1, <2>2
  <2>3. ASSUME NEW accepted \in BOOLEAN, NEW next \in Receipts, NEW delay \in Nat,
               Outcome(worker[w].stored, next, accepted), Become(w, CommitState(w, next, delay))
        PROVE  AccountInv'
    <3>1. Accounted(next)
      BY <2>1, <2>3, TransitionsAccounted
    <3>2. AccountedState(CommitState(w, next, delay))
      BY <1>t, <3>1, PutAccounted DEF CommitState
    <3>3. QED
      BY <1>m, <2>1, <2>3, <3>2
  <2>4. QED
    BY <1>8, <1>t, <2>2, <2>3, SendMoves
<1>9. ASSUME NEW w \in Workers, Settle(w) \/ Interrupt(w) PROVE AccountInv'
  BY <1>9, <1>m, IdleGood, QuietAccounted DEF Settle, Interrupt
<1>10. CASE Tick \/ (\E e \in Entries : LockExpires(e)) \/ UNCHANGED vars
  BY <1>10, <1>u DEF Tick, LockExpires, vars
<1>11. QED
  BY <1>1, <1>2, <1>3, <1>4, <1>5, <1>6, <1>7, <1>8, <1>9, <1>10 DEF Next, WorkerStep

(***************************************************************************)
(* A receipt is stored no more than three times per attempt and once more  *)
(* (receipt.go): workers that keep meeting at a recipient, crash there or  *)
(* write late cannot go on writing for ever.                               *)
(***************************************************************************)
THEOREM ReceiptsEnd == Spec => []WritesBounded
<1>1. Init => AccountInv
  BY SMTT(30) DEF Init, AccountInv, Exists, Idle
<1>2. IInv /\ AccountInv => WritesBounded
  <2>1. ASSUME IInv, AccountInv, NEW p \in Paths PROVE etags[p] <= 3 * MaxAttempts + 1
    <3>1. CASE Exists(p)
      <4>1. receipts[p] \in Receipts /\ etags[p] = receipts[p].stateVersion
        BY <2>1, <3>1 DEF IInv, TypeInv, TypeOK, JournalInv, VersionIsETag, Exists
      <4>2. /\ receipts[p].attemptCount \in Nat /\ receipts[p].attemptCount <= MaxAttempts
            /\ receipts[p].stateVersion \in Nat
            /\ receipts[p].status \in ReceiptStatus /\ MaxAttempts \in Nat
        BY <4>1, MaxAttemptsAssumption DEF Receipts, ReceiptOf
      <4>3. Rank(receipts[p].status) \in 1..4
        BY <4>2 DEF Rank, ReceiptStatus
      <4>4. receipts[p].stateVersion <= 3 * (receipts[p].attemptCount - 1) + Rank(receipts[p].status)
        BY <2>1, <3>1 DEF AccountInv, Accounted
      <4>5. QED
        BY <4>1, <4>2, <4>3, <4>4, SMTT(30)
    <3>2. CASE ~Exists(p)
      BY <2>1, <3>2, MaxAttemptsAssumption DEF IInv, JournalInv, VersionIsETag
    <3>3. QED
      BY <3>1, <3>2
  <2>2. QED
    BY <2>1 DEF WritesBounded
<1>3. QED
  BY <1>1, <1>2, AccountStep, Inductive, PTL DEF Spec
==============================================================================
