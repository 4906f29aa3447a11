---------------------------- MODULE WorkerDelivery ----------------------------
(***************************************************************************)
(* What a delivery promises beyond the journal of WorkerSafety: terminal   *)
(* receipts are audited once, the rows of a batch are mailed in order, a   *)
(* completed message is done, and retries wait until they are due.  Each   *)
(* has an inductive invariant of its own beside IInv (WorkerInvariant).    *)
(***************************************************************************)
EXTENDS WorkerSafety

\* A step of a worker changes no other worker.
LEMMA BecomeIs ==
  ASSUME TypeInv, NEW w \in Workers, NEW s, Become(w, s)
  PROVE  worker'[w] = s /\ \A v \in Workers \ {w} : worker'[v] = worker[v]
  BY DEF Become, TypeInv, TypeOK

\* A terminal receipt stays what it is (Upload, LateUpload).
LEMMA TerminalStays ==
  ASSUME IInv, [Next]_vars, NEW p \in Paths, Exists(p), terminal(receipts[p])
  PROVE  receipts'[p] = receipts[p]
  BY WhoWrites DEF GoodWrite, Follows

------------------------------------------------------------------------------
(***************************************************************************)
(* Terminal receipts are audited once.                                     *)
(***************************************************************************)
\* The worker reads back an own write after the step only if it did before.
LEMMA AuditQuiet ==
  ASSUME IInv, AuditInv, NEW c, \A v \in Workers \ {c} : worker'[v] = worker[v],
         c \in Workers => worker'[c].pc # "reread",
         UNCHANGED <<receipts, etags, audits>>
  PROVE  AuditInv'
<1>1. ASSUME NEW v \in Workers, worker'[v].pc = "reread"
      PROVE  worker'[v] = worker[v] /\ Path(v)' = Path(v)
  BY <1>1 DEF Path, Message
<1>2. ASSUME NEW v \in Workers, NEW p, NEW n, ReadsBack(v, p, n)'
      PROVE  ReadsBack(v, p, n)
  BY <1>1, <1>2 DEF ReadsBack
<1>3. ASSUME NEW v \in Workers, NEW w \in Workers, worker'[w].pc = "reread",
             ReadsBack(v, Path(w), worker[w].next.stateVersion)'
      PROVE  v = w
  <2>1. worker[w].pc = "reread" /\ ReadsBack(v, Path(w), worker[w].next.stateVersion)
    BY <1>1, <1>3 DEF ReadsBack
  <2> QED
    BY <2>1 DEF AuditInv
<1> QED
  BY <1>2, <1>3 DEF AuditInv, Exists

\* A stored write moves its path on, and no audited path is written.
LEMMA AuditWrite ==
  ASSUME IInv, AuditInv, NEW p \in Paths, NEW next \in Receipts,
         GoodWrite(p, etags[p], next), ReplaceReceipt(p, next),
         NEW c, \A v \in Workers \ {c} : worker'[v] = worker[v],
         c \in Workers =>
           (worker'[c].pc = "reread" => Path(c)' = p /\ worker'[c].next = next),
         UNCHANGED audits
  PROVE  AuditInv'
<1>1. /\ audits[p] = 0 /\ etags[p] \in Nat
      /\ etags'[p] = etags[p] + 1 /\ next.stateVersion = etags[p] + 1
      /\ \A q \in Paths \ {p} : etags'[q] = etags[q] /\ receipts'[q] = receipts[q]
  BY DEF GoodWrite, Follows, AuditInv, ReplaceReceipt, IInv, TypeInv, TypeOK
<1>2. ASSUME NEW v \in Workers \ {c}, worker'[v].pc = "reread"
      PROVE  /\ worker[v].pc = "reread" /\ worker'[v] = worker[v] /\ Path(v)' = Path(v)
             /\ Path(v) \in Paths /\ worker[v].next.stateVersion <= etags[Path(v)]
             /\ worker[v].next.stateVersion \in Nat
  <2>1. worker'[v] = worker[v] /\ Path(v)' = Path(v) /\ worker[v].pc = "reread"
    BY <1>2 DEF Path, Message
  <2>2. Path(v) \in Paths /\ GoodReread(v) /\ worker[v].next \in Receipts
    BY <2>1, WorkerFacts DEF IInv, JournalInv, GoodWorkers, OnRow, ControlOK
  <2> QED
    BY <2>1, <2>2 DEF GoodReread, Receipts, ReceiptOf
<1>3. ASSUME NEW v \in Workers, NEW w \in Workers, worker'[w].pc = "reread",
             ReadsBack(v, Path(w), worker[w].next.stateVersion)'
      PROVE  v = w
  <2>0. worker'[v].pc = "reread" /\ Path(v)' = Path(w)'
        /\ worker'[v].next.stateVersion = worker'[w].next.stateVersion
    BY <1>3 DEF ReadsBack
  <2>1. CASE v # c /\ w # c
    <3>1. worker[w].pc = "reread" /\ ReadsBack(v, Path(w), worker[w].next.stateVersion)
      BY <1>2, <1>3, <2>0, <2>1 DEF ReadsBack
    <3> QED
      BY <3>1 DEF AuditInv
  <2>2. CASE v = c /\ w # c
    BY <1>1, <1>2, <1>3, <2>0, <2>2
  <2>3. CASE v # c /\ w = c
    BY <1>1, <1>2, <1>3, <2>0, <2>3
  <2> QED
    BY <2>1, <2>2, <2>3
<1>4. ASSUME NEW q \in Paths, audits[q] # 0
      PROVE  /\ audits[q] = 1 /\ Exists(q)' /\ terminal(receipts'[q])
             /\ \A w \in Workers : ~ReadsBack(w, q, etags[q])'
  <2>1. /\ q # p /\ audits[q] = 1 /\ Exists(q) /\ terminal(receipts[q])
        /\ \A w \in Workers : ~ReadsBack(w, q, etags[q])
    BY <1>1, <1>4 DEF AuditInv
  <2>2. Exists(q)' /\ terminal(receipts'[q]) /\ etags'[q] = etags[q]
    BY <1>1, <2>1 DEF Exists
  <2>3. ASSUME NEW w \in Workers, ReadsBack(w, q, etags[q])'
        PROVE  FALSE
    <3>1. w # c
      BY <2>1, <2>3 DEF ReadsBack
    <3> QED
      BY <1>2, <2>1, <2>2, <2>3, <3>1 DEF ReadsBack
  <2> QED
    BY <2>1, <2>2, <2>3
<1> QED
  BY <1>3, <1>4 DEF AuditInv

\* The upload half of a write (Upload).
LEMMA AuditUpload ==
  ASSUME IInv, AuditInv, NEW w \in Workers, Upload(w)
  PROVE  AuditInv'
<1>1. /\ worker[w].pc = "upload" /\ worker[w].pc \in OnRow /\ Path(w) \in Paths
      /\ worker[w].next \in Receipts /\ worker[w] \in WorkerState
      /\ GoodWrite(Path(w), worker[w].etag, worker[w].next) /\ TypeInv
  BY WorkerFacts DEF Upload, IInv, JournalInv, GoodWrites, OnRow, ControlOK
<1>2. UNCHANGED audits
  BY DEF Upload
<1>3. ASSUME NEW conflict \in BOOLEAN, Become(w, PutFailed(w, conflict))
      PROVE  worker'[w].pc # "reread" /\ \A v \in Workers \ {w} : worker'[v] = worker[v]
  <2>1. PutFailed(w, conflict) \in Quiet
    BY <1>1, PutFailedGood
  <2>2. PutFailed(w, conflict).pc # "reread"
    BY <2>1 DEF Quiet
  <2> QED
    BY <1>1, <1>3, <2>2, BecomeIs
<1>4. CASE /\ etags[Path(w)] = worker[w].etag
           /\ ReplaceReceipt(Path(w), worker[w].next)
           /\ Become(w, [worker[w] EXCEPT !.pc = "reread"])
  <2> DEFINE s == [worker[w] EXCEPT !.pc = "reread"]
  <2>1. s.entry = worker[w].entry /\ s.row = worker[w].row /\ s.next = worker[w].next
    BY <1>1 DEF WorkerState
  <2>2. worker'[w] = s /\ \A v \in Workers \ {w} : worker'[v] = worker[v]
    BY <1>1, <1>4, BecomeIs
  <2> HIDE DEF s
  <2>3. Path(w)' = Path(w) /\ worker'[w].next = worker[w].next
    BY <2>1, <2>2 DEF Path, Message
  <2> QED
    BY <1>1, <1>2, <1>4, <2>2, <2>3, AuditWrite
<1>5. CASE /\ etags[Path(w)] = worker[w].etag
           /\ ReplaceReceipt(Path(w), worker[w].next)
           /\ Become(w, PutFailed(w, TRUE))
  BY <1>1, <1>2, <1>3, <1>5, AuditWrite
<1>6. CASE /\ \E conflict \in BOOLEAN : Become(w, PutFailed(w, conflict))
           /\ UNCHANGED <<receipts, etags>>
  BY <1>2, <1>3, <1>6, AuditQuiet
<1> QED
  BY <1>4, <1>5, <1>6 DEF Upload, ETagMatches

\* Reading a write back, with the audit event of a terminal one (Reread).
LEMMA AuditReread ==
  ASSUME IInv, AuditInv, NEW w \in Workers, Reread(w)
  PROVE  AuditInv'
<1> PICK p : p = Path(w)
  OBVIOUS
<1>1. /\ worker[w].pc = "reread" /\ worker[w].pc \in OnRow /\ p \in Paths /\ TypeInv
      /\ UNCHANGED <<receipts, etags>> /\ receipts[p] \in Receipts \cup {NoReceipt}
  BY WorkerFacts DEF Reread, IInv, OnRow, TypeInv, TypeOK
<1>2. worker'[w].pc # "reread" /\ \A v \in Workers \ {w} : worker'[v] = worker[v]
  <2>1. CASE Moves(w, Quiet)
    <3>1. PICK s \in Quiet : Become(w, s)
      BY <2>1 DEF Moves
    <3> QED
      BY <1>1, <3>1, BecomeIs DEF Quiet
  <2>2. CASE Become(w, Put(w, "start", receipts[p], etags[p], StartSend(receipts[p], worker[w].now)))
    <3>1. Put(w, "start", receipts[p], etags[p], StartSend(receipts[p], worker[w].now)).pc = "upload"
      BY <1>1, WorkerFacts DEF Put, WorkerState
    <3> QED
      BY <1>1, <2>2, <3>1, BecomeIs
  <2>3. CASE Become(w, SendState(w, receipts[p], etags[p]))
    <3>1. SendState(w, receipts[p], etags[p]).pc = "send"
      BY <1>1, WorkerFacts DEF SendState, WorkerState
    <3> QED
      BY <1>1, <2>3, <3>1, BecomeIs
  <2> QED
    BY <1>1, <2>1, <2>2, <2>3, RereadMoves
<1>3. CASE UNCHANGED audits
  BY <1>1, <1>2, <1>3, AuditQuiet
<1>4. CASE /\ receipts[p] # NoReceipt
           /\ receipts[p].stateVersion = worker[w].next.stateVersion
           /\ audit(p, receipts[p])
  <2>1. Exists(p) /\ etags[p] = worker[w].next.stateVersion
    BY <1>1, <1>4 DEF Exists, IInv, JournalInv, VersionIsETag
  <2>2. ReadsBack(w, p, etags[p])
    BY <1>1, <2>1 DEF ReadsBack
  <2>3. audits[p] = 0
    BY <1>1, <2>2 DEF AuditInv
  <2>4. CASE ~terminal(receipts[p])
    <3>1. UNCHANGED audits
      BY <1>4, <2>4 DEF audit, IInv, TypeInv, TypeOK
    <3> QED
      BY <1>3, <3>1
  <2>5. CASE terminal(receipts[p])
    <3>1. audits'[p] = 1 /\ \A q \in Paths \ {p} : audits'[q] = audits[q]
      BY <1>1, <1>4, <2>3, <2>5 DEF audit, IInv, TypeInv, TypeOK
    <3>2. ASSUME NEW v \in Workers, worker'[v].pc = "reread"
          PROVE  v # w /\ worker'[v] = worker[v] /\ Path(v)' = Path(v)
      BY <1>2, <3>2 DEF Path, Message
    <3>3. ASSUME NEW v \in Workers, NEW q, NEW n, ReadsBack(v, q, n)'
          PROVE  v # w /\ ReadsBack(v, q, n)
      BY <3>2, <3>3 DEF ReadsBack
    <3>4. ASSUME NEW v \in Workers, NEW u \in Workers, worker'[u].pc = "reread",
                 ReadsBack(v, Path(u), worker[u].next.stateVersion)'
          PROVE  v = u
      <4>1. worker[u].pc = "reread" /\ ReadsBack(v, Path(u), worker[u].next.stateVersion)
        BY <3>2, <3>4 DEF ReadsBack
      <4> QED
        BY <4>1 DEF AuditInv
    <3>5. ASSUME NEW v \in Workers
          PROVE  ~ReadsBack(v, p, etags[p])'
      <4> SUFFICES ASSUME ReadsBack(v, p, etags[p])'
                   PROVE  FALSE
        OBVIOUS
      <4>1. v # w /\ ReadsBack(v, p, etags[p])
        BY <1>1, <3>3
      <4> QED
        BY <1>1, <2>1, <4>1 DEF AuditInv, ReadsBack
    <3>6. ASSUME NEW q \in Paths \ {p}, audits[q] # 0
          PROVE  /\ audits'[q] = 1 /\ Exists(q)' /\ terminal(receipts'[q])
                 /\ \A v \in Workers : ~ReadsBack(v, q, etags[q])'
      BY <1>1, <3>1, <3>3, <3>6 DEF AuditInv, Exists
    <3>7. Exists(p)' /\ terminal(receipts'[p])
      BY <1>1, <2>1, <2>5 DEF Exists
    <3> QED
      BY <3>1, <3>4, <3>5, <3>6, <3>7 DEF AuditInv
  <2> QED
    BY <2>4, <2>5
<1> QED
  BY <1>3, <1>4 DEF Reread, Committed

LEMMA AuditStep == IInv /\ AuditInv /\ [Next]_vars => AuditInv'
<1> SUFFICES ASSUME IInv, AuditInv, [Next]_vars PROVE AuditInv'
  OBVIOUS
<1>t. TypeInv
  BY DEF IInv
<1>q. ASSUME NEW w \in Workers, NEW s, Become(w, s), s.pc # "reread",
             UNCHANGED <<receipts, etags, audits>>
      PROVE  AuditInv'
  BY <1>t, <1>q, BecomeIs, AuditQuiet
<1>m. ASSUME NEW w \in Workers, Moves(w, Quiet), UNCHANGED <<receipts, etags, audits>>
      PROVE  AuditInv'
  BY <1>q, <1>m DEF Moves, Quiet
<1>u. ASSUME UNCHANGED <<receipts, etags, audits, worker>>
      PROVE  AuditInv'
  BY <1>u, AuditQuiet, WorkerAssumption
<1>1. ASSUME NEW w \in Workers, NEW e \in Entries, Receive(w, e) PROVE AuditInv'
  BY <1>1, <1>t, <1>m, ReceiveMoves DEF Receive
<1>2. ASSUME NEW w \in Workers, ReadBlobs(w) PROVE AuditInv'
  BY <1>2, <1>t, <1>m, ReadBlobsMoves DEF ReadBlobs
<1>3. ASSUME NEW w \in Workers, ScanRow(w) PROVE AuditInv'
  BY <1>3, <1>t, <1>m, ScanRowMoves DEF ScanRow
<1>4. ASSUME NEW w \in Workers, GetReceipt(w) \/ GetAfterConflict(w) PROVE AuditInv'
  <2>1. worker[w] \in WorkerState /\ UNCHANGED <<receipts, etags, audits>>
    BY <1>4, <1>t, WorkerFacts DEF GetReceipt, GetAfterConflict
  <2>2. ASSUME NEW step, NEW r, NEW etag, NEW next PROVE Put(w, step, r, etag, next).pc = "upload"
    BY <2>1 DEF Put, WorkerState
  <2>3. CASE Moves(w, Quiet)
    BY <1>m, <2>1, <2>3
  <2>4. ASSUME NEW step, NEW r, NEW etag, NEW next, Become(w, Put(w, step, r, etag, next))
        PROVE  AuditInv'
    BY <1>q, <2>1, <2>2, <2>4
  <2> QED
    BY <1>4, <1>t, <2>3, <2>4, GetMoves
<1>5. ASSUME NEW w \in Workers, Upload(w) PROVE AuditInv'
  BY <1>5, AuditUpload
<1>6. ASSUME NEW w \in Workers, Reread(w) PROVE AuditInv'
  BY <1>6, AuditReread
<1>7. ASSUME NEW w \in Workers, Send(w) PROVE AuditInv'
  <2>1. worker[w].pc = "send" /\ worker[w] \in WorkerState /\ UNCHANGED <<receipts, etags, audits>>
    BY <1>7, <1>t, WorkerFacts DEF Send
  <2>2. CASE Moves(w, Quiet)
    BY <1>m, <2>1, <2>2
  <2>3. ASSUME NEW next \in Receipts, NEW delay \in Nat, Become(w, CommitState(w, next, delay))
        PROVE  AuditInv'
    <3>1. CommitState(w, next, delay).pc = "upload"
      BY <2>1 DEF CommitState, Put, WorkerState
    <3> QED
      BY <1>q, <2>1, <2>3, <3>1
  <2> QED
    BY <1>7, <1>t, <2>2, <2>3, SendMoves
<1>8. ASSUME NEW w \in Workers, Settle(w) \/ Interrupt(w) PROVE AuditInv'
  BY <1>8, <1>m, IdleGood DEF Settle, Interrupt, Moves
<1>9. CASE LateUpload
  <2>1. PICK x \in late :
          /\ IF ETagMatches(x.path, x.etag)
             THEN ReplaceReceipt(x.path, x.receipt)
             ELSE UNCHANGED <<receipts, etags>>
          /\ UNCHANGED <<worker, audits>>
    BY <1>9 DEF LateUpload
  <2>2. x.path \in Paths /\ x.receipt \in Receipts /\ GoodWrite(x.path, x.etag, x.receipt)
    BY DEF IInv, JournalInv, GoodWrites, TypeInv, TypeOK, Write
  <2>3. CASE ETagMatches(x.path, x.etag)
    BY <2>1, <2>2, <2>3, AuditWrite, WorkerAssumption DEF ETagMatches
  <2> QED
    BY <1>u, <2>1, <2>3
<1>10. CASE (\E e \in Entries : LockExpires(e)) \/ Tick \/ UNCHANGED vars
  BY <1>10, <1>u DEF LockExpires, Tick, vars
<1> QED
  BY <1>1, <1>2, <1>3, <1>4, <1>5, <1>6, <1>7, <1>8, <1>9, <1>10 DEF Next, WorkerStep

(***************************************************************************)
(* At most one terminal audit event per receipt, and only for one that is  *)
(* stored as terminal, however many workers, crashes and late writes meet  *)
(* at a path (worker.go, audit after each committed transition).           *)
(***************************************************************************)
THEOREM AuditedOnce == Spec => []TerminalAuditedOnce
<1>1. Init => AuditInv
  BY DEF Init, Idle, AuditInv, ReadsBack
<1>2. IInv /\ AuditInv /\ [Next]_vars => AuditInv'
  BY AuditStep
<1>3. IInv /\ AuditInv => TerminalAuditedOnce
  BY DEF AuditInv, TerminalAuditedOnce, IInv, TypeInv, TypeOK
<1> QED
  BY <1>1, <1>2, <1>3, Inductive, PTL DEF Spec

------------------------------------------------------------------------------
(***************************************************************************)
(* The rows of a batch are mailed in order.  What is delivered stays so,   *)
(* hence so does all that OrderInv says of the rows behind a worker.       *)
(***************************************************************************)
LEMMA RowPath ==
  ASSUME NEW m \in Messages
  PROVE  /\ Rows[m] \in Seq(Paths) /\ Len(Rows[m]) \in Nat
         /\ \A i \in 1..Len(Rows[m]) : Rows[m][i] \in Paths
<1>1. Rows[m] \in Seq(Paths)
  BY WorkerAssumption
<1> QED
  BY <1>1

LEMMA DeliveredStays ==
  ASSUME IInv, [Next]_vars, NEW p \in Paths, DeliveredTo(p)
  PROVE  DeliveredTo(p)'
<1>1. terminal(receipts[p]) /\ Exists(p)
  BY DEF DeliveredTo, Delivered, terminal, Terminal
<1>2. receipts'[p] = receipts[p]
  BY <1>1, TerminalStays
<1> QED
  BY <1>2 DEF DeliveredTo, Exists

LEMMA UpToStays ==
  ASSUME IInv, [Next]_vars, NEW m \in Messages, NEW n \in Int, n <= Len(Rows[m]), UpTo(m, n)
  PROVE  UpTo(m, n)'
<1>1. ASSUME NEW i \in 1..n PROVE DeliveredTo(Rows[m][i])'
  <2>1. DeliveredTo(Rows[m][i])
    BY DEF UpTo
  <2>2. Rows[m][i] \in Paths
    <3>1. Len(Rows[m]) \in Nat /\ \A j \in 1..Len(Rows[m]) : Rows[m][j] \in Paths
      BY RowPath
    <3>2. i \in 1..Len(Rows[m])
      BY <3>1
    <3> QED
      BY <3>1, <3>2
  <2> QED
    BY <2>1, <2>2, DeliveredStays
<1> QED
  BY <1>1 DEF UpTo

LEMMA ReachedStays ==
  ASSUME IInv, [Next]_vars, NEW m, NEW p, Reached(m, p)
  PROVE  Reached(m, p)'
<1>1. m \in Messages \ Malformed /\ Len(Rows[m]) \in Nat
  BY RowPath DEF Reached
<1>2. PICK j \in 1..Len(Rows[m]) : Rows[m][j] = p /\ UpTo(m, j - 1)
  BY DEF Reached
<1>3. UpTo(m, j - 1)'
  BY <1>1, <1>2, UpToStays
<1> QED
  BY <1>1, <1>2, <1>3 DEF Reached

LEMMA InOrderStays ==
  ASSUME IInv, [Next]_vars, NEW s \in GoodStates, InOrder(s)
  PROVE  InOrder(s)'
<1> DEFINE m == Body[s.entry]
<1>1. CASE s.pc \in {"row"} \cup OnRow
  <2>1. /\ m \in Messages /\ s.row \in Nat /\ s.pc # "settle"
        /\ m \notin Malformed /\ s.row <= Len(Rows[m]) + 1 /\ UpTo(m, s.row - 1)
    BY <1>1, WorkerAssumption DEF GoodStates, ControlOK, WorkerState, OnRow, InOrder
  <2>2. Len(Rows[m]) \in Nat
    BY <2>1, RowPath
  <2>3. s.row - 1 \in Int /\ s.row - 1 <= Len(Rows[m])
    BY <2>1, <2>2
  <2>4. UpTo(m, s.row - 1)'
    BY <2>1, <2>3, UpToStays
  <2> QED
    BY <2>1, <2>4 DEF InOrder
<1>2. CASE s.pc = "settle" /\ s.disposition = "COMPLETE"
  <2>1. m \in Messages /\ UpTo(m, Len(Rows[m]))
    BY <1>2, WorkerAssumption DEF GoodStates, ControlOK, InOrder
  <2>2. Len(Rows[m]) \in Int /\ Len(Rows[m]) <= Len(Rows[m])
    BY <2>1, RowPath
  <2>3. UpTo(m, Len(Rows[m]))'
    BY <2>1, <2>2, UpToStays
  <2> QED
    BY <1>2, <2>3 DEF InOrder, OnRow
<1> QED
  BY <1>1, <1>2 DEF InOrder, OnRow

(***************************************************************************)
(* The states a worker moves to are in order.                              *)
(***************************************************************************)
\* Nothing is asked of a worker that is on no row and completes nothing.
LEMMA CalmInOrder ==
  ASSUME NEW s, s.pc \in {"idle", "blobs", "settle"},
         s.pc = "settle" => s.disposition # "COMPLETE"
  PROVE  InOrder(s)
  BY DEF InOrder, OnRow

IsVerdict(s, disposition, reason) ==
  s.pc = "settle" /\ s.disposition = disposition /\ s.reason = reason

\* The fields of a verdict, also after noting a fault or a receipt in it.
LEMMA VerdictFields ==
  ASSUME NEW w, NEW disposition, NEW reason, NEW wait, NEW fault, NEW r
  PROVE  /\ IsVerdict(Verdict(w, disposition, reason, wait), disposition, reason)
         /\ IsVerdict([Verdict(w, disposition, reason, wait) EXCEPT !.fault = fault], disposition, reason)
         /\ IsVerdict([Verdict(w, disposition, reason, wait) EXCEPT !.stored = r], disposition, reason)
<1> DEFINE v == Verdict(w, disposition, reason, wait)
<1>1. IsVerdict(v, disposition, reason) /\ {"pc", "disposition", "reason"} \subseteq DOMAIN v
  BY DEF Verdict, Idle, IsVerdict
<1> HIDE DEF v
<1>2. IsVerdict([v EXCEPT !.fault = fault], disposition, reason)
  BY <1>1 DEF IsVerdict
<1>3. IsVerdict([v EXCEPT !.stored = r], disposition, reason)
  BY <1>1 DEF IsVerdict
<1> QED
  BY <1>1, <1>2, <1>3 DEF v

LEMMA VerdictInOrder ==
  ASSUME NEW w, NEW reason, NEW wait, NEW fault, NEW r
  PROVE  /\ InOrder(DeadLetter(w, reason)) /\ InOrder(Abandon(w, reason, wait))
         /\ InOrder([DeadLetter(w, reason) EXCEPT !.fault = fault])
         /\ InOrder([Abandon(w, reason, wait) EXCEPT !.fault = fault])
         /\ InOrder([Abandon(w, reason, wait) EXCEPT !.stored = r])
<1>1. ASSUME NEW s, NEW d \in {"DEAD_LETTER", "ABANDON"}, IsVerdict(s, d, reason)
      PROVE  InOrder(s)
  BY <1>1, CalmInOrder DEF IsVerdict
<1> QED
  BY <1>1, VerdictFields DEF DeadLetter, Abandon

LEMMA AtRowInOrder ==
  ASSUME NEW w, NEW n, Message(w) \notin Malformed, n <= Len(Rows[Message(w)]) + 1,
         UpTo(Message(w), n - 1)
  PROVE  InOrder(AtRow(w, n))
<1>1. AtRow(w, n).pc = "row" /\ AtRow(w, n).entry = worker[w].entry /\ AtRow(w, n).row = n
  BY DEF AtRow, Idle
<1> QED
  BY <1>1 DEF InOrder, OnRow, Message

\* A delivered row is left for the next one.
LEMMA NextRowInOrder ==
  ASSUME IInv, NEW w \in Workers, worker[w].pc \in OnRow, InOrder(worker[w]),
         DeliveredTo(Path(w))
  PROVE  InOrder(AtRow(w, worker[w].row + 1))
<1> DEFINE m == Message(w)
           n == worker[w].row
<1>1. m \notin Malformed /\ n <= Len(Rows[m]) + 1 /\ UpTo(m, n - 1)
  BY DEF InOrder, Message
<1>2. n \in 1..Len(Rows[m]) /\ Len(Rows[m]) \in Nat
  BY WorkerFacts DEF IInv, ControlOK, Message
<1>3. UpTo(m, (n + 1) - 1)
  <2>1. ASSUME NEW i \in 1..((n + 1) - 1) PROVE DeliveredTo(Rows[m][i])
    <3>1. i = n \/ i \in 1..(n - 1)
      BY <1>2
    <3> QED
      BY <1>1, <3>1 DEF UpTo, Path
  <2> QED
    BY <2>1 DEF UpTo
<1>4. n + 1 <= Len(Rows[m]) + 1
  BY <1>2
<1> QED
  BY <1>1, <1>3, <1>4, AtRowInOrder

LEMMA PutInOrder ==
  ASSUME IInv, NEW w \in Workers, worker[w].pc \in OnRow, InOrder(worker[w]),
         NEW step, NEW r, NEW etag, NEW next, next.queueMessageID = Message(w)
  PROVE  InOrder(Put(w, step, r, etag, next))
<1> DEFINE s == Put(w, step, r, etag, next)
<1>1. worker[w] \in WorkerState
  BY WorkerFacts DEF IInv
<1>2. /\ s.pc = "upload" /\ s.entry = worker[w].entry /\ s.row = worker[w].row
      /\ s.next = next
  BY <1>1 DEF Put, WorkerState
<1> HIDE DEF s
<1> QED
  BY <1>2 DEF InOrder, OnRow, Message, s

LEMMA PutFailedInOrder ==
  ASSUME NEW w, worker[w].pc \in OnRow, InOrder(worker[w]), NEW conflict
  PROVE  InOrder(PutFailed(w, conflict))
<1> DEFINE s == [Idle EXCEPT !.pc = "reget", !.entry = worker[w].entry,
                             !.row = worker[w].row, !.now = worker[w].now]
<1>1. s.pc = "reget" /\ s.entry = worker[w].entry /\ s.row = worker[w].row
  BY DEF Idle
<1> HIDE DEF s
<1>2. InOrder(s)
  BY <1>1 DEF InOrder, OnRow
<1> QED
  BY <1>2, VerdictInOrder DEF PutFailed, s

\* The worker w takes a step to a state that is in order.
StaysInOrder(w) == \E s : Become(w, s) /\ InOrder(s)

LEMMA ReadInOrder ==
  ASSUME IInv, OrderInv, NEW w \in Workers,
         (\E e \in Entries : Receive(w, e)) \/ ReadBlobs(w) \/ ScanRow(w) \/ Settle(w) \/ Interrupt(w)
  PROVE  StaysInOrder(w)
<1>1. InOrder(worker[w]) /\ worker[w] \in WorkerState
  BY WorkerFacts DEF OrderInv, IInv
<1>2. ASSUME NEW e \in Entries, Receive(w, e)
      PROVE  StaysInOrder(w)
  <2> DEFINE s == [Idle EXCEPT !.pc = "blobs", !.entry = e]
  <2>1. s.pc = "blobs"
    BY DEF Idle
  <2>2. Become(w, s)
    BY <1>2 DEF Receive
  <2> HIDE DEF s
  <2> QED
    BY <2>1, <2>2, CalmInOrder DEF StaysInOrder
<1>3. CASE ReadBlobs(w)
  <2>1. CASE Message(w) \notin Malformed /\ Become(w, AtRow(w, 1))
    <3>1. 1 <= Len(Rows[Message(w)]) + 1
      <4>1. Message(w) \in Messages
        BY <1>3, WorkerFacts DEF ReadBlobs, IInv
      <4>2. Len(Rows[Message(w)]) \in Nat
        BY <4>1, RowPath
      <4> QED
        BY <4>2
    <3>2. UpTo(Message(w), 1 - 1)
      BY DEF UpTo
    <3> QED
      BY <2>1, <3>1, <3>2, AtRowInOrder DEF StaysInOrder
  <2>2. CASE Become(w, DeadLetter(w, "MESSAGE_INVALID"))
    BY <2>2, VerdictInOrder DEF StaysInOrder
  <2>3. ASSUME NEW check \in BlobChecks, NEW fault \in Faults, Become(w, BlobVerdict(w, check, fault))
        PROVE  StaysInOrder(w)
    BY <2>3, VerdictInOrder DEF BlobVerdict, StaysInOrder
  <2> QED
    BY <1>3, <2>1, <2>2, <2>3 DEF ReadBlobs
<1>4. CASE ScanRow(w)
  <2> DEFINE m == Message(w)
  <2>1. /\ m \notin Malformed /\ worker[w].row <= Len(Rows[m]) + 1
        /\ UpTo(m, worker[w].row - 1) /\ worker[w].row \in Nat /\ Len(Rows[m]) \in Nat
    BY <1>1, <1>4, WorkerFacts, RowPath DEF ScanRow, InOrder, Message, WorkerState, IInv
  <2>2. CASE worker[w].row > Len(Rows[m]) /\ Become(w, Complete(w))
    <3>1. worker[w].row - 1 = Len(Rows[m])
      BY <2>1, <2>2
    <3>2. Complete(w).pc = "settle" /\ Complete(w).entry = worker[w].entry
      BY DEF Complete, Verdict, Idle
    <3>3. InOrder(Complete(w))
      BY <2>1, <3>1, <3>2 DEF InOrder, OnRow, Message
    <3> QED
      BY <2>2, <3>3 DEF StaysInOrder
  <2>3. CASE Become(w, [worker[w] EXCEPT !.pc = "get", !.now = clock])
    <3> DEFINE s == [worker[w] EXCEPT !.pc = "get", !.now = clock]
    <3>1. s.pc = "get" /\ s.entry = worker[w].entry /\ s.row = worker[w].row
      BY <1>1 DEF WorkerState
    <3> HIDE DEF s
    <3>2. InOrder(s)
      BY <2>1, <3>1 DEF InOrder, OnRow, Message
    <3> QED
      BY <2>3, <3>2 DEF StaysInOrder, s
  <2>4. ASSUME NEW fault \in Faults,
               Become(w, [DeadLetter(w, "REFERENCED_BLOB_INVALID") EXCEPT !.fault = fault])
        PROVE  StaysInOrder(w)
    BY <2>4, VerdictInOrder DEF StaysInOrder
  <2> QED
    BY <1>4, <2>2, <2>3, <2>4 DEF ScanRow
<1>5. CASE Settle(w) \/ Interrupt(w)
  <2>1. Become(w, Idle) /\ Idle.pc = "idle"
    BY <1>5 DEF Settle, Interrupt, Idle
  <2> QED
    BY <2>1, CalmInOrder DEF StaysInOrder
<1> QED
  BY <1>2, <1>3, <1>4, <1>5

\* What processRecipient does with the receipt it finds (Examine).
LEMMA ExamineInOrder ==
  ASSUME IInv, OrderInv, NEW w \in Workers, worker[w].pc \in OnRow,
         receipts[Path(w)] \in Receipts, Examine(w, receipts[Path(w)], etags[Path(w)])
  PROVE  StaysInOrder(w)
<1> PICK r : r = receipts[Path(w)]
  OBVIOUS
<1> PICK etag : etag = etags[Path(w)]
  OBVIOUS
<1> DEFINE now == worker[w].now
<1>1. InOrder(worker[w]) /\ r \in Receipts /\ now \in Nat /\ r # NoReceipt
  BY WorkerFacts, NoReceiptFact DEF OrderInv, IInv, WorkerState
<1>2. ASSUME NEW reason, Become(w, DeadLetter(w, reason)) PROVE StaysInOrder(w)
  BY <1>2, VerdictInOrder DEF StaysInOrder
<1>3. ASSUME NEW reason, NEW wait, Become(w, Abandon(w, reason, wait)) PROVE StaysInOrder(w)
  BY <1>3, VerdictInOrder DEF StaysInOrder
<1>4. CASE Become(w, [Abandon(w, "RETRY_NOT_DUE", r.nextAttemptAt - now) EXCEPT !.stored = r])
  BY <1>4, VerdictInOrder DEF StaysInOrder
<1>5. CASE r.status \in Delivered /\ Become(w, AtRow(w, worker[w].row + 1))
  <2>1. DeliveredTo(Path(w))
    BY <1>1, <1>5 DEF DeliveredTo, Exists
  <2> QED
    BY <1>1, <1>5, <2>1, NextRowInOrder DEF StaysInOrder
<1>6. ASSUME NEW step, NEW next, Takeover(r, next), receiptMatches(r, Message(w)),
             Become(w, Put(w, step, r, etag, next))
      PROVE  StaysInOrder(w)
  <2>1. next.queueMessageID = Message(w)
    BY <1>6 DEF Takeover, receiptMatches
  <2> QED
    BY <1>1, <1>6, <2>1, PutInOrder DEF StaysInOrder
<1>7. CASE /\ receiptMatches(r, Message(w)) /\ r.status = "RETRYABLE"
           /\ Become(w, Put(w, "exhaust", r, etag, Exhaust(r)))
  BY <1>1, <1>6, <1>7, TakeoverTransitions
<1>8. CASE /\ receiptMatches(r, Message(w)) /\ ReclaimAllowed(r, now)
           /\ Become(w, Put(w, "reclaim", r, etag, Reclaim(r, now)))
  BY <1>1, <1>6, <1>8, TakeoverTransitions
<1>9. CASE /\ receiptMatches(r, Message(w)) /\ RecoverStaleAllowed(r, now)
           /\ Become(w, Put(w, "recover", r, etag, RecoverStale(r, now)))
  BY <1>1, <1>6, <1>9, TakeoverTransitions
<1>10. Examine(w, r, etag)
  OBVIOUS
<1> QED
  BY <1>2, <1>3, <1>4, <1>5, <1>7, <1>8, <1>9, <1>10 DEF Examine

LEMMA GetInOrder ==
  ASSUME IInv, OrderInv, NEW w \in Workers, GetReceipt(w) \/ GetAfterConflict(w)
  PROVE  StaysInOrder(w)
<1>1. /\ worker[w].pc \in OnRow /\ Path(w) \in Paths /\ InOrder(worker[w])
      /\ receipts[Path(w)] \in Receipts \cup {NoReceipt}
  BY WorkerFacts DEF GetReceipt, GetAfterConflict, OnRow, OrderInv, IInv, TypeInv, TypeOK
<1>2. CASE receipts[Path(w)] # NoReceipt /\ Examine(w, receipts[Path(w)], etags[Path(w)])
  BY <1>1, <1>2, ExamineInOrder
<1>3. CASE Become(w, Put(w, "create", NoReceipt, 0, ClaimReceipt(Message(w), worker[w].now)))
  <2>1. ClaimReceipt(Message(w), worker[w].now).queueMessageID = Message(w)
    BY DEF ClaimReceipt
  <2> QED
    BY <1>1, <1>3, <2>1, PutInOrder DEF StaysInOrder
<1>4. ASSUME NEW reason, Become(w, Abandon(w, reason, TicksPerSecond))
      PROVE  StaysInOrder(w)
  BY <1>4, VerdictInOrder DEF StaysInOrder
<1> QED
  BY <1>2, <1>3, <1>4 DEF GetReceipt, GetAfterConflict

LEMMA UploadInOrder ==
  ASSUME IInv, OrderInv, NEW w \in Workers, Upload(w)
  PROVE  StaysInOrder(w)
<1>1. /\ worker[w].pc = "upload" /\ worker[w].pc \in OnRow /\ InOrder(worker[w])
      /\ worker[w] \in WorkerState
  BY WorkerFacts DEF Upload, OnRow, OrderInv, IInv
<1>2. ASSUME NEW conflict, Become(w, PutFailed(w, conflict))
      PROVE  StaysInOrder(w)
  BY <1>1, <1>2, PutFailedInOrder DEF StaysInOrder
<1>3. CASE Become(w, [worker[w] EXCEPT !.pc = "reread"])
  <2> DEFINE s == [worker[w] EXCEPT !.pc = "reread"]
  <2>1. /\ s.pc = "reread" /\ s.entry = worker[w].entry /\ s.row = worker[w].row
        /\ s.next = worker[w].next
    BY <1>1 DEF WorkerState
  <2> HIDE DEF s
  <2>2. InOrder(s)
    BY <1>1, <2>1 DEF InOrder, OnRow
  <2> QED
    BY <1>3, <2>2 DEF StaysInOrder, s
<1> QED
  BY <1>2, <1>3 DEF Upload

LEMMA RereadInOrder ==
  ASSUME IInv, OrderInv, NEW w \in Workers, Reread(w)
  PROVE  StaysInOrder(w)
<1> PICK r : r = receipts[Path(w)]
  OBVIOUS
<1> PICK etag : etag = etags[Path(w)]
  OBVIOUS
<1>1. /\ worker[w].pc = "reread" /\ worker[w].pc \in OnRow /\ InOrder(worker[w])
      /\ worker[w] \in WorkerState /\ Path(w) \in Paths
  BY WorkerFacts DEF Reread, OnRow, OrderInv, IInv
<1>2. CASE Become(w, PutFailed(w, TRUE))
  BY <1>1, <1>2, PutFailedInOrder DEF StaysInOrder
<1>3. CASE /\ r # NoReceipt /\ r.stateVersion = worker[w].next.stateVersion
           /\ Committed(w, r, etag)
  <2>1. r = worker[w].next /\ Exists(Path(w)) /\ r \in Receipts
    <3>1. etags[Path(w)] = r.stateVersion /\ GoodReread(w) /\ Exists(Path(w))
      BY <1>1, <1>3 DEF IInv, JournalInv, VersionIsETag, GoodWorkers, Exists
    <3>2. receipts[Path(w)] \in Receipts \cup {NoReceipt}
      BY <1>1 DEF IInv, TypeInv, TypeOK
    <3> QED
      BY <1>3, <3>1, <3>2 DEF GoodReread
  <2>2. r.queueMessageID = Message(w)
    BY <1>1, <2>1 DEF InOrder, Message
  <2>3. CASE Become(w, PutStart(w, r, etag))
    <3>1. StartSend(r, worker[w].now).queueMessageID = Message(w)
      BY <2>1, <2>2 DEF StartSend, Receipts, ReceiptOf
    <3>2. InOrder(PutStart(w, r, etag))
      BY <1>1, <3>1, PutInOrder, VerdictInOrder DEF PutStart
    <3> QED
      BY <2>3, <3>2 DEF StaysInOrder
  <2>4. ASSUME NEW reason, Become(w, DeadLetter(w, reason)) PROVE StaysInOrder(w)
    BY <2>4, VerdictInOrder DEF StaysInOrder
  <2>5. CASE Become(w, SendState(w, r, etag))
    <3>1. /\ SendState(w, r, etag).pc = "send" /\ SendState(w, r, etag).entry = worker[w].entry
          /\ SendState(w, r, etag).row = worker[w].row /\ SendState(w, r, etag).stored = r
      BY <1>1 DEF SendState, WorkerState
    <3>2. InOrder(SendState(w, r, etag))
      BY <1>1, <2>2, <3>1 DEF InOrder, OnRow, Message
    <3> QED
      BY <2>5, <3>2 DEF StaysInOrder
  <2>6. CASE worker[w].next.status \in Delivered /\ Become(w, AtRow(w, worker[w].row + 1))
    <3>1. DeliveredTo(Path(w))
      BY <2>1, <2>6 DEF DeliveredTo
    <3> QED
      BY <1>1, <2>6, <3>1, NextRowInOrder DEF StaysInOrder
  <2>7. CASE Become(w, [Abandon(w, "PROVIDER_RETRYABLE", worker[w].delay) EXCEPT !.stored = r])
    BY <2>7, VerdictInOrder DEF StaysInOrder
  <2> QED
    BY <1>3, <2>3, <2>4, <2>5, <2>6, <2>7 DEF Committed, SendState
<1> QED
  BY <1>2, <1>3 DEF Reread

LEMMA SendInOrder ==
  ASSUME IInv, OrderInv, NEW w \in Workers, Send(w)
  PROVE  StaysInOrder(w)
<1>1. /\ worker[w].pc = "send" /\ worker[w].pc \in OnRow /\ InOrder(worker[w])
      /\ worker[w] \in WorkerState /\ worker[w].stored \in Receipts
  BY WorkerFacts DEF Send, OnRow, OrderInv, IInv, ControlOK
<1>2. ASSUME NEW allowed, NEW next, NEW delay,
             next.queueMessageID = worker[w].stored.queueMessageID,
             Become(w, PutOutcome(w, allowed, next, delay))
      PROVE  StaysInOrder(w)
  <2> DEFINE s == [Put(w, "commit", worker[w].stored, worker[w].etag, next) EXCEPT !.delay = delay]
  <2>1. /\ s.pc = "upload" /\ s.entry = worker[w].entry /\ s.row = worker[w].row /\ s.next = next
    BY <1>1 DEF Put, WorkerState
  <2> HIDE DEF s
  <2>2. InOrder(s)
    BY <1>1, <1>2, <2>1 DEF InOrder, OnRow
  <2>3. InOrder(PutOutcome(w, allowed, next, delay))
    BY <2>2, VerdictInOrder DEF PutOutcome, s
  <2> QED
    BY <1>2, <2>3 DEF StaysInOrder
<1>3. \A status : finish(worker[w].stored, status).queueMessageID = worker[w].stored.queueMessageID
  BY <1>1 DEF finish, Receipts, ReceiptOf
<1>4. \A at : Retry(worker[w].stored, at).queueMessageID = worker[w].stored.queueMessageID
  BY <1>1 DEF Retry, Receipts, ReceiptOf
<1> QED
  BY <1>2, <1>3, <1>4 DEF Send, Success, Accept, Simulate, MarkUnknown, Fail

\* Every worker, moved or not, is in order after a step.
LEMMA WorkersInOrder ==
  ASSUME IInv, OrderInv, [Next]_vars, NEW v \in Workers
  PROVE  InOrder(worker[v])'
<1>1. TypeInv /\ TypeInv'
  BY TypeStep DEF IInv
<1>2. worker'[v] \in GoodStates
  BY <1>1 DEF TypeInv
<1>3. ASSUME NEW w \in Workers, StaysInOrder(w)
      PROVE  InOrder(worker'[v])
  <2>1. PICK s : Become(w, s) /\ InOrder(s)
    BY <1>3 DEF StaysInOrder
  <2>2. worker'[v] = s \/ worker'[v] = worker[v]
    BY <1>1, <2>1, BecomeIs
  <2> QED
    BY <2>1, <2>2 DEF OrderInv
<1>4. ASSUME worker' = worker
      PROVE  InOrder(worker'[v])
  BY <1>4 DEF OrderInv
<1>5. InOrder(worker'[v])
  <2>1. ASSUME NEW w \in Workers, WorkerStep(w) \/ Interrupt(w)
        PROVE  StaysInOrder(w)
    <3>1. CASE (\E e \in Entries : Receive(w, e)) \/ ReadBlobs(w) \/ ScanRow(w) \/ Settle(w)
               \/ Interrupt(w)
      BY <3>1, ReadInOrder
    <3>2. CASE GetReceipt(w) \/ GetAfterConflict(w)
      BY <3>2, GetInOrder
    <3>3. CASE Upload(w) \/ Reread(w) \/ Send(w)
      BY <3>3, UploadInOrder, RereadInOrder, SendInOrder
    <3> QED
      BY <2>1, <3>1, <3>2, <3>3 DEF WorkerStep
  <2>2. CASE (\E e \in Entries : LockExpires(e)) \/ LateUpload \/ Tick \/ UNCHANGED vars
    BY <1>4, <2>2 DEF LockExpires, LateUpload, Tick, vars
  <2> QED
    BY <1>3, <2>1, <2>2 DEF Next
<1>6. PICK s \in GoodStates : s = worker'[v]
  BY <1>2
<1>7. InOrder(s)'
  BY <1>5, <1>6, InOrderStays
<1> QED
  BY <1>6, <1>7 DEF InOrder, UpTo, DeliveredTo, Exists

\* The row a worker is writing for is one its message has reached.
LEMMA WritesReached ==
  ASSUME IInv, OrderInv, NEW w \in Workers, worker[w].pc = "upload"
  PROVE  Reached(worker[w].next.queueMessageID, Path(w))
<1>1. InOrder(worker[w]) /\ worker[w].pc \in OnRow
  BY DEF OrderInv, OnRow
<1>2. worker[w].row \in 1..Len(Rows[Message(w)]) /\ Message(w) \in Messages
  BY <1>1, WorkerFacts DEF IInv, ControlOK, Message
<1> QED
  BY <1>1, <1>2 DEF InOrder, Message, Reached, Path

LEMMA OrderStep == IInv /\ OrderInv /\ [Next]_vars => OrderInv'
<1> SUFFICES ASSUME IInv, OrderInv, [Next]_vars PROVE OrderInv'
  OBVIOUS
<1>1. \A w \in Workers : InOrder(worker[w])'
  BY WorkersInOrder
<1>2. ASSUME NEW p \in Paths, Exists(p)'
      PROVE  Reached(receipts[p].queueMessageID, p)'
  <2>1. Reached(receipts'[p].queueMessageID, p)
    <3>1. CASE receipts'[p] = receipts[p]
      BY <1>2, <3>1 DEF OrderInv, Exists
    <3>2. ASSUME NEW w \in Workers, Upload(w), receipts'[p] # receipts[p]
          PROVE  Reached(receipts'[p].queueMessageID, p)
      <4>1. worker[w].pc = "upload" /\ ReplaceReceipt(Path(w), worker[w].next)
        BY <3>2 DEF Upload
      <4>2. p = Path(w) /\ receipts'[p] = worker[w].next
        BY <3>2, <4>1 DEF ReplaceReceipt, IInv, TypeInv, TypeOK
      <4> QED
        BY <4>1, <4>2, WritesReached
    <3>3. CASE LateUpload /\ receipts'[p] # receipts[p]
      <4>1. PICK x \in late : ReplaceReceipt(x.path, x.receipt)
        BY <3>3 DEF LateUpload
      <4>2. p = x.path /\ receipts'[p] = x.receipt
        BY <3>3, <4>1 DEF ReplaceReceipt, IInv, TypeInv, TypeOK
      <4> QED
        BY <4>2 DEF OrderInv
    <3> QED
      BY <3>1, <3>2, <3>3
      DEF Next, WorkerStep, vars, Receive, ReadBlobs, ScanRow, GetReceipt,
          GetAfterConflict, Reread, Send, Settle, Interrupt, LockExpires, Tick
  <2>2. PICK m : m = receipts'[p].queueMessageID
    OBVIOUS
  <2>3. Reached(m, p)'
    BY <2>1, <2>2, ReachedStays
  <2> QED
    BY <2>2, <2>3 DEF Reached
<1>3. ASSUME NEW x \in late'
      PROVE  Reached(x.receipt.queueMessageID, x.path)'
  <2>1. Reached(x.receipt.queueMessageID, x.path)
    <3>1. CASE x \in late
      BY <3>1 DEF OrderInv
    <3>2. ASSUME NEW w \in Workers, Upload(w), x \notin late
          PROVE  Reached(x.receipt.queueMessageID, x.path)
      <4>1. /\ worker[w].pc = "upload"
            /\ x = [path |-> Path(w), etag |-> worker[w].etag, receipt |-> worker[w].next]
        BY <3>2 DEF Upload
      <4>2. x.path = Path(w) /\ x.receipt = worker[w].next
        BY <4>1
      <4> QED
        BY <4>1, <4>2, WritesReached
    <3> QED
      BY <3>1, <3>2
      DEF Next, WorkerStep, vars, Receive, ReadBlobs, ScanRow, GetReceipt, LateUpload,
          GetAfterConflict, Reread, Send, Settle, Interrupt, LockExpires, Tick
  <2> QED
    BY <2>1, ReachedStays
<1>4. CompletedDelivered'
  <2> SUFFICES ASSUME NEW e \in Entries, queue'[e] = "completed"
               PROVE  UpTo(Body[e], Len(Rows[Body[e]]))'
    BY DEF CompletedDelivered, UpTo, DeliveredTo
  <2>1. UpTo(Body[e], Len(Rows[Body[e]]))
    <3>1. CASE queue[e] = "completed"
      BY <3>1 DEF OrderInv, CompletedDelivered, UpTo, DeliveredTo
    <3>2. ASSUME NEW w \in Workers, Settle(w), queue[e] # "completed"
          PROVE  UpTo(Body[e], Len(Rows[Body[e]]))
      <4>1. /\ worker[w].pc = "settle"
            /\ queue' = [queue EXCEPT ![worker[w].entry] =
                 CASE worker[w].disposition = "COMPLETE" -> "completed"
                   [] worker[w].disposition = "DEAD_LETTER" -> "deadlettered"
                   [] OTHER -> "queued"]
        BY <3>2 DEF Settle
      <4>2. e = worker[w].entry /\ worker[w].disposition = "COMPLETE"
        BY <3>2, <4>1 DEF IInv, TypeInv, TypeOK
      <4> QED
        BY <4>1, <4>2 DEF OrderInv, InOrder
    <3> QED
      BY <3>1, <3>2
      DEF Next, WorkerStep, vars, Receive, ReadBlobs, ScanRow, GetReceipt, LateUpload,
          GetAfterConflict, Upload, Reread, Send, Interrupt, LockExpires, Tick
  <2>2. Body[e] \in Messages /\ Len(Rows[Body[e]]) \in Int /\ Len(Rows[Body[e]]) <= Len(Rows[Body[e]])
    BY WorkerAssumption, RowPath
  <2> QED
    BY <2>1, <2>2, UpToStays
<1> QED
  BY <1>1, <1>2, <1>3, <1>4 DEF OrderInv

(***************************************************************************)
(* The order of the rows is kept whatever redeliveries, crashes and late   *)
(* writes occur.                                                           *)
(***************************************************************************)
THEOREM OrderInductive == Spec => []OrderInv
<1>1. Init => OrderInv
  <2> SUFFICES ASSUME Init PROVE OrderInv
    OBVIOUS
  <2>1. \A w \in Workers : InOrder(worker[w])
    <3>1. Idle.pc = "idle"
      BY DEF Idle
    <3> QED
      BY <3>1, CalmInOrder DEF Init
  <2>2. CompletedDelivered /\ \A p \in Paths : ~Exists(p)
    BY DEF Init, CompletedDelivered, Exists
  <2> QED
    BY <2>1, <2>2 DEF Init, OrderInv
<1>2. IInv /\ OrderInv /\ [Next]_vars => OrderInv'
  BY OrderStep
<1> QED
  BY <1>1, <1>2, Inductive, PTL DEF Spec

(***************************************************************************)
(* Where no batch names a recipient twice, which the publisher sees to, a  *)
(* row is mailed only after every earlier row was delivered                *)
(* (errStopBatch).                                                         *)
(***************************************************************************)
THEOREM RowsInOrder ==
  ASSUME DistinctRows
  PROVE  Spec => []BatchPrefix
<1>1. OrderInv => BatchPrefix
  <2> SUFFICES ASSUME OrderInv, NEW m \in Messages, NEW j \in 1..Len(Rows[m]),
                      Exists(Rows[m][j]), receipts[Rows[m][j]].queueMessageID = m,
                      NEW i \in 1..(j - 1)
               PROVE  DeliveredTo(Rows[m][i])
    BY DEF BatchPrefix, DeliveredTo
  <2>1. Rows[m][j] \in Paths
    BY RowPath
  <2>2. Reached(m, Rows[m][j])
    BY <2>1 DEF OrderInv
  <2>3. PICK k \in 1..Len(Rows[m]) : Rows[m][k] = Rows[m][j] /\ UpTo(m, k - 1)
    BY <2>2 DEF Reached
  <2>4. k = j
    BY <2>2, <2>3 DEF DistinctRows, Reached
  <2> QED
    BY <2>3, <2>4 DEF UpTo
<1> QED
  BY <1>1, OrderInductive, PTL

(***************************************************************************)
(* A message that is completed has been delivered to every row of its      *)
(* batch (Process returns Complete).                                       *)
(***************************************************************************)
THEOREM CompletedIsDone == Spec => []CompletedDelivered
<1>1. OrderInv => CompletedDelivered
  BY DEF OrderInv
<1> QED
  BY <1>1, OrderInductive, PTL

------------------------------------------------------------------------------
(***************************************************************************)
(* Retries wait until they are due.  A wait is cut off at MaxDelay, but no *)
(* retry is scheduled further away than that.                              *)
(***************************************************************************)
LEMMA BoundedDelayIs ==
  ASSUME NEW v \in Int
  PROVE  /\ boundedDelay(v) \in Nat /\ boundedDelay(v) <= MaxDelay
         /\ boundedDelay(v) >= v \/ boundedDelay(v) = MaxDelay
  BY TicksPerSecondAssumption, MaxDelayAssumption DEF boundedDelay, Smaller, Larger

LEMMA RetryDelayBounded ==
  ASSUME NEW r \in Receipts, NEW retryAfter \in Nat, NEW seed \in Nat
  PROVE  retryDelay(r, retryAfter, seed) <= MaxDelay
<1>1. retryDelay(r, retryAfter, seed) \in Nat
  BY RetryDelayNat
<1>2. \A v : boundedDelay(v) = MaxDelay \/ boundedDelay(v) < MaxDelay
  BY DEF boundedDelay, Smaller
<1> QED
  BY <1>1, <1>2, MaxDelayAssumption DEF retryDelay

\* A stored time has lost its fraction of a second.
LEMMA FormatTimeEarlier ==
  ASSUME NEW t \in Nat
  PROVE  formatTime(t) \in Nat /\ formatTime(t) <= t
<1>1. \A d \in Nat \ {0} : (t \div d) \in Nat /\ (t \div d) * d <= t /\ (t \div d) * d \in Nat
  OBVIOUS
<1> QED
  BY <1>1, TicksPerSecondAssumption DEF formatTime

\* Time and the writes of the store only go forward.
LEMMA StoreMoves ==
  ASSUME IInv, [Next]_vars, NEW p \in Paths
  PROVE  /\ clock \in Nat /\ clock' \in Nat /\ clock <= clock'
         /\ etags[p] \in Nat
         /\ \/ receipts'[p] = receipts[p] /\ etags'[p] = etags[p]
            \/ etags'[p] = etags[p] + 1
<1>1. clock \in Nat /\ etags \in [Paths -> Nat] /\ receipts \in [Paths -> Receipts \cup {NoReceipt}]
  BY DEF IInv, TypeInv, TypeOK
<1>2. clock' = clock \/ clock' = clock + 1
  BY DEF Next, WorkerStep, vars, Receive, ReadBlobs, ScanRow, GetReceipt, LateUpload,
         GetAfterConflict, Upload, Reread, Send, Settle, Interrupt, LockExpires, Tick
<1>3. ASSUME NEW q, NEW next, ReplaceReceipt(q, next)
      PROVE  \/ receipts'[p] = receipts[p] /\ etags'[p] = etags[p]
             \/ etags'[p] = etags[p] + 1
  BY <1>1, <1>3 DEF ReplaceReceipt
<1>4. CASE UNCHANGED <<receipts, etags>>
  BY <1>1, <1>2, <1>4
<1>5. CASE \E q, next : ReplaceReceipt(q, next)
  BY <1>1, <1>2, <1>3, <1>5
<1> QED
  BY <1>4, <1>5
  DEF Next, WorkerStep, vars, Receive, ReadBlobs, ScanRow, GetReceipt, LateUpload,
      GetAfterConflict, Upload, Reread, Send, Settle, Interrupt, LockExpires, Tick

\* A claim that was due stays due, and one that is overtaken cannot be stored.
LEMMA DueWriteStays ==
  ASSUME IInv, [Next]_vars, NEW p \in Paths, NEW etag \in Nat, NEW next,
         etag <= etags[p], DueWrite(p, etag, next)
  PROVE  DueWrite(p, etag, next)'
<1>1. /\ clock \in Nat /\ clock' \in Nat /\ clock <= clock' /\ etags[p] \in Nat
      /\ \/ receipts'[p] = receipts[p] /\ etags'[p] = etags[p]
         \/ etags'[p] = etags[p] + 1
  BY StoreMoves
<1>2. CASE etags'[p] = etags[p] + 1
  BY <1>1, <1>2 DEF DueWrite
<1>3. CASE receipts'[p] = receipts[p] /\ etags'[p] = etags[p]
  <2>1. Exists(p) => receipts[p].nextAttemptAt \in Int
    BY DEF IInv, TypeInv, TypeOK, Exists, Receipts, ReceiptOf, Time, NoTime
  <2> QED
    BY <1>1, <1>3, <2>1 DEF DueWrite, Exists
<1> QED
  BY <1>1, <1>2, <1>3

(***************************************************************************)
(* The states a worker moves to are on time.                               *)
(***************************************************************************)
\* The times of a receipt can be compared.
LEMMA ReceiptTime ==
  ASSUME NEW r \in Receipts
  PROVE  r.nextAttemptAt \in Int
<1>1. r.nextAttemptAt \in Time
  BY DEF Receipts, ReceiptOf
<1> QED
  BY <1>1 DEF Time, NoTime

\* A worker that has just read the clock and has nothing to write.
LEMMA ClockOnTime ==
  ASSUME NEW s, s.pc = "get", s.now <= clock
  PROVE  OnTime(s)
  BY Zenon DEF OnTime

LEMMA CalmOnTime ==
  ASSUME NEW s, s.pc \notin OnRow,
         s.pc = "settle" => s.reason \notin {"RETRY_NOT_DUE", "PROVIDER_RETRYABLE"}
  PROVE  OnTime(s)
  BY DEF OnTime, OnRow

LEMMA VerdictOnTime ==
  ASSUME NEW w, NEW reason \in Reasons \ {"RETRY_NOT_DUE", "PROVIDER_RETRYABLE"}, NEW wait, NEW fault
  PROVE  /\ OnTime(DeadLetter(w, reason)) /\ OnTime(Abandon(w, reason, wait))
         /\ OnTime([DeadLetter(w, reason) EXCEPT !.fault = fault])
         /\ OnTime([Abandon(w, reason, wait) EXCEPT !.fault = fault])
<1>1. ASSUME NEW s, NEW d, IsVerdict(s, d, reason)
      PROVE  OnTime(s)
  BY <1>1, CalmOnTime DEF IsVerdict, OnRow
<1> QED
  BY <1>1, VerdictFields DEF DeadLetter, Abandon

LEMMA RowOnTime ==
  ASSUME NEW w, NEW n
  PROVE  OnTime(Complete(w)) /\ OnTime(AtRow(w, n))
<1>1. Complete(w).pc = "settle" /\ Complete(w).reason = "none"
  BY DEF Complete, Verdict, Idle
<1>2. AtRow(w, n).pc = "row"
  BY DEF AtRow, Idle
<1> QED
  BY <1>1, <1>2, CalmOnTime DEF OnRow

\* The hold before the abandon of a delivery that has to wait for a retry.
LEMMA HoldOnTime ==
  ASSUME NEW w, NEW reason, NEW wait, NEW r, r.nextAttemptAt <= clock + boundedDelay(wait)
  PROVE  OnTime([Abandon(w, reason, wait) EXCEPT !.stored = r])
<1> DEFINE s == [Abandon(w, reason, wait) EXCEPT !.stored = r]
<1>1. s.pc = "settle" /\ s.stored = r /\ s.wakeAt = clock + boundedDelay(wait)
  BY DEF Abandon, Verdict, Idle
<1> HIDE DEF s
<1> QED
  BY <1>1 DEF OnTime, OnRow, s

LEMMA PutOnTime ==
  ASSUME IInv, NEW w \in Workers, worker[w].pc \in OnRow, OnTime(worker[w]),
         NEW step, NEW r, NEW etag, NEW next, next.status # "RETRYABLE",
         DueWrite(Path(w), etag, next)
  PROVE  OnTime(Put(w, step, r, etag, next))
<1> DEFINE s == Put(w, step, r, etag, next)
<1>1. worker[w] \in WorkerState
  BY WorkerFacts DEF IInv
<1>2. /\ s.pc = "upload" /\ s.entry = worker[w].entry /\ s.row = worker[w].row
      /\ s.next = next /\ s.etag = etag /\ s.now = worker[w].now
  BY <1>1 DEF Put, WorkerState
<1> HIDE DEF s
<1> QED
  BY <1>2 DEF OnTime, OnRow, Message, Path, s

LEMMA PutFailedOnTime ==
  ASSUME NEW w, worker[w].pc \in OnRow, OnTime(worker[w]), NEW conflict
  PROVE  OnTime(PutFailed(w, conflict)) /\ PutFailed(w, conflict).pc # "upload"
<1> DEFINE s == [Idle EXCEPT !.pc = "reget", !.entry = worker[w].entry,
                             !.row = worker[w].row, !.now = worker[w].now]
<1>1. s.pc = "reget" /\ s.now = worker[w].now
  BY DEF Idle
<1> HIDE DEF s
<1>2. OnTime(s)
  BY <1>1 DEF OnTime, OnRow
<1>3. \A reason, wait : DeadLetter(w, reason).pc # "upload" /\ Abandon(w, reason, wait).pc # "upload"
  BY DEF DeadLetter, Abandon, Verdict, Idle
<1> QED
  BY <1>1, <1>2, <1>3, VerdictOnTime DEF PutFailed, Reasons, s

\* The worker w takes a step to a state that is on time, and one that begins a
\* write changes nothing in the store.
StaysOnTime(w) ==
  \E s : Become(w, s) /\ OnTime(s) /\ (s.pc = "upload" => UNCHANGED <<receipts, etags>>)

LEMMA ReadOnTime ==
  ASSUME IInv, DueInv, NEW w \in Workers,
         (\E e \in Entries : Receive(w, e)) \/ ReadBlobs(w) \/ ScanRow(w) \/ Settle(w) \/ Interrupt(w)
  PROVE  StaysOnTime(w)
<1>1. worker[w] \in WorkerState /\ clock \in Nat /\ UNCHANGED <<receipts, etags>>
  BY WorkerFacts
  DEF IInv, TypeInv, TypeOK, Receive, ReadBlobs, ScanRow, Settle, Interrupt
<1>2. ASSUME NEW e \in Entries, Receive(w, e)
      PROVE  StaysOnTime(w)
  <2> DEFINE s == [Idle EXCEPT !.pc = "blobs", !.entry = e]
  <2>1. s.pc = "blobs"
    BY DEF Idle
  <2>2. Become(w, s)
    BY <1>2 DEF Receive
  <2> HIDE DEF s
  <2> QED
    BY <2>1, <2>2, CalmOnTime DEF StaysOnTime, OnRow
<1>3. CASE ReadBlobs(w)
  <2>1. ASSUME NEW check \in BlobChecks, NEW fault \in Faults
        PROVE  OnTime(BlobVerdict(w, check, fault))
    BY VerdictOnTime DEF BlobVerdict, Reasons
  <2>2. OnTime(DeadLetter(w, "MESSAGE_INVALID")) /\ OnTime(AtRow(w, 1))
    BY VerdictOnTime, RowOnTime DEF Reasons
  <2> QED
    BY <1>1, <1>3, <2>1, <2>2 DEF ReadBlobs, StaysOnTime
<1>4. CASE ScanRow(w)
  <2> DEFINE s == [worker[w] EXCEPT !.pc = "get", !.now = clock]
  <2>1. s.pc = "get" /\ s.now = clock
    BY <1>1 DEF WorkerState
  <2> HIDE DEF s
  <2>2. s.now <= clock
    BY <1>1, <2>1
  <2>3. OnTime(s)
    BY <2>1, <2>2, ClockOnTime, Zenon
  <2>4. /\ OnTime(Complete(w))
        /\ \A fault \in Faults :
             OnTime([DeadLetter(w, "REFERENCED_BLOB_INVALID") EXCEPT !.fault = fault])
    BY VerdictOnTime, RowOnTime DEF Reasons
  <2> QED
    BY <1>1, <1>4, <2>3, <2>4 DEF ScanRow, StaysOnTime, s
<1>5. CASE Settle(w) \/ Interrupt(w)
  <2>1. Become(w, Idle) /\ Idle.pc = "idle"
    BY <1>5 DEF Settle, Interrupt, Idle
  <2> QED
    BY <2>1, CalmOnTime DEF StaysOnTime, OnRow
<1> QED
  BY <1>2, <1>3, <1>4, <1>5

\* What processRecipient does with the receipt it finds (Examine).
LEMMA ExamineOnTime ==
  ASSUME IInv, DueInv, NEW w \in Workers, worker[w].pc \in OnRow, UNCHANGED <<receipts, etags>>,
         receipts[Path(w)] \in Receipts, Examine(w, receipts[Path(w)], etags[Path(w)])
  PROVE  StaysOnTime(w)
<1> PICK r : r = receipts[Path(w)]
  OBVIOUS
<1> PICK etag : etag = etags[Path(w)]
  OBVIOUS
<1> DEFINE now == worker[w].now
<1>1. /\ OnTime(worker[w]) /\ r \in Receipts /\ r # NoReceipt /\ Path(w) \in Paths
      /\ now \in Nat /\ clock \in Nat /\ now <= clock /\ r.nextAttemptAt \in Int
  <2>1. OnTime(worker[w]) /\ r \in Receipts /\ r # NoReceipt
    BY NoReceiptFact DEF DueInv
  <2>2. TypeInv /\ worker[w] \in WorkerState /\ Path(w) \in Paths
    BY WorkerFacts DEF IInv
  <2>3. now \in Nat /\ clock \in Nat /\ now <= clock
    BY <2>1, <2>2 DEF OnTime, TypeInv, TypeOK, WorkerState
  <2>4. r.nextAttemptAt \in Int
    BY <2>1, ReceiptTime
  <2> QED
    BY <2>1, <2>2, <2>3, <2>4
<1>2. ASSUME NEW reason \in Reasons \ {"RETRY_NOT_DUE", "PROVIDER_RETRYABLE"},
             Become(w, DeadLetter(w, reason))
      PROVE  StaysOnTime(w)
  BY <1>2, VerdictOnTime DEF StaysOnTime
<1>3. CASE \E wait : Become(w, Abandon(w, "ACTIVE_RECEIPT", wait))
  BY <1>3, VerdictOnTime DEF StaysOnTime, Reasons
<1>4. CASE /\ r.status = "RETRYABLE"
           /\ Become(w, [Abandon(w, "RETRY_NOT_DUE", r.nextAttemptAt - now) EXCEPT !.stored = r])
  <2> DEFINE wait == r.nextAttemptAt - now
  <2>1. r.nextAttemptAt <= clock + MaxDelay
    BY <1>1, <1>4 DEF DueInv, DueSoon, Exists
  <2>2. wait \in Int
    BY <1>1
  <2>3. /\ boundedDelay(wait) \in Nat
        /\ boundedDelay(wait) >= wait \/ boundedDelay(wait) = MaxDelay
    BY <2>2, BoundedDelayIs
  <2>4. r.nextAttemptAt <= clock + boundedDelay(wait)
    <3> HIDE DEF wait
    <3>1. r.nextAttemptAt = wait + now
      <4>1. r.nextAttemptAt \in Int /\ now \in Int
        BY <1>1
      <4> QED
        BY <4>1 DEF wait
    <3> QED
      BY <1>1, <2>1, <2>2, <2>3, <3>1
  <2> QED
    BY <1>4, <2>4, HoldOnTime DEF StaysOnTime
<1>5. CASE Become(w, AtRow(w, worker[w].row + 1))
  BY <1>5, RowOnTime DEF StaysOnTime
<1>6. ASSUME NEW step, NEW next, Takeover(r, next),
             r.status = "RETRYABLE" /\ next.status = "CLAIMED" => now >= r.nextAttemptAt,
             Become(w, Put(w, step, r, etag, next))
      PROVE  StaysOnTime(w)
  <2>1. next.status # "RETRYABLE"
    BY <1>6 DEF Takeover
  <2>2. DueWrite(Path(w), etag, next)
    <3>1. next.status = "CLAIMED" /\ r.status = "RETRYABLE" => clock >= r.nextAttemptAt
      <4>1. now \in Nat /\ clock \in Nat /\ now <= clock /\ r.nextAttemptAt \in Int
        BY <1>1
      <4> HIDE DEF now
      <4>2. now >= r.nextAttemptAt => clock >= r.nextAttemptAt
        BY <4>1
      <4> QED
        BY <1>6, <4>2
    <3> QED
      BY <3>1 DEF DueWrite
  <2> QED
    BY <1>1, <1>6, <2>1, <2>2, PutOnTime DEF StaysOnTime
<1>7. CASE /\ r.status = "RETRYABLE"
           /\ Become(w, Put(w, "exhaust", r, etag, Exhaust(r)))
  <2>1. Exhaust(r).status = "FAILED"
    BY <1>1 DEF Exhaust, Receipts, ReceiptOf
  <2> QED
    BY <1>1, <1>6, <1>7, <2>1, TakeoverTransitions
<1>8. CASE /\ ReclaimAllowed(r, now)
           /\ Become(w, Put(w, "reclaim", r, etag, Reclaim(r, now)))
  <2>1. now >= r.nextAttemptAt
    BY <1>8 DEF ReclaimAllowed
  <2> QED
    BY <1>1, <1>6, <1>8, <2>1, TakeoverTransitions
<1>9. CASE /\ RecoverStaleAllowed(r, now)
           /\ Become(w, Put(w, "recover", r, etag, RecoverStale(r, now)))
  <2>1. r.status # "RETRYABLE"
    BY <1>9 DEF RecoverStaleAllowed
  <2> QED
    BY <1>1, <1>6, <1>9, <2>1, TakeoverTransitions
<1>10. Examine(w, r, etag)
  OBVIOUS
<1> QED
  BY <1>2, <1>3, <1>4, <1>5, <1>7, <1>8, <1>9, <1>10 DEF Examine, Reasons

LEMMA GetOnTime ==
  ASSUME IInv, DueInv, NEW w \in Workers, GetReceipt(w) \/ GetAfterConflict(w)
  PROVE  StaysOnTime(w)
<1>1. /\ worker[w].pc \in OnRow /\ Path(w) \in Paths /\ OnTime(worker[w])
      /\ receipts[Path(w)] \in Receipts \cup {NoReceipt} /\ UNCHANGED <<receipts, etags>>
  BY WorkerFacts DEF GetReceipt, GetAfterConflict, OnRow, DueInv, IInv, TypeInv, TypeOK
<1>2. CASE receipts[Path(w)] # NoReceipt /\ Examine(w, receipts[Path(w)], etags[Path(w)])
  BY <1>1, <1>2, ExamineOnTime
<1>3. CASE /\ receipts[Path(w)] = NoReceipt
           /\ Become(w, Put(w, "create", NoReceipt, 0, ClaimReceipt(Message(w), worker[w].now)))
  <2>1. ClaimReceipt(Message(w), worker[w].now).status # "RETRYABLE"
    BY DEF ClaimReceipt
  <2>2. DueWrite(Path(w), 0, ClaimReceipt(Message(w), worker[w].now))
    BY <1>3 DEF DueWrite, Exists
  <2> QED
    BY <1>1, <1>3, <2>1, <2>2, PutOnTime DEF StaysOnTime
<1>4. ASSUME NEW reason \in {"RECEIPT_UNAVAILABLE", "RECEIPT_CONFLICT"},
             Become(w, Abandon(w, reason, TicksPerSecond))
      PROVE  StaysOnTime(w)
  BY <1>1, <1>4, VerdictOnTime DEF StaysOnTime, Reasons
<1> QED
  BY <1>2, <1>3, <1>4 DEF GetReceipt, GetAfterConflict

LEMMA UploadOnTime ==
  ASSUME IInv, DueInv, NEW w \in Workers, Upload(w)
  PROVE  StaysOnTime(w)
<1>1. /\ worker[w].pc = "upload" /\ worker[w].pc \in OnRow /\ OnTime(worker[w])
      /\ worker[w] \in WorkerState
  BY WorkerFacts DEF Upload, OnRow, DueInv, IInv
<1>2. ASSUME NEW conflict, Become(w, PutFailed(w, conflict))
      PROVE  StaysOnTime(w)
  BY <1>1, <1>2, PutFailedOnTime DEF StaysOnTime
<1>3. CASE Become(w, [worker[w] EXCEPT !.pc = "reread"])
  <2> DEFINE s == [worker[w] EXCEPT !.pc = "reread"]
  <2>1. /\ s.pc = "reread" /\ s.now = worker[w].now /\ s.delay = worker[w].delay
        /\ s.next = worker[w].next
    BY <1>1 DEF WorkerState
  <2> HIDE DEF s
  <2>2. OnTime(s)
    BY <1>1, <2>1 DEF OnTime, OnRow
  <2> QED
    BY <1>3, <2>1, <2>2 DEF StaysOnTime, s
<1> QED
  BY <1>2, <1>3 DEF Upload

LEMMA RereadOnTime ==
  ASSUME IInv, DueInv, NEW w \in Workers, Reread(w)
  PROVE  StaysOnTime(w)
<1> PICK r : r = receipts[Path(w)]
  OBVIOUS
<1> PICK etag : etag = etags[Path(w)]
  OBVIOUS
<1>1. /\ worker[w].pc = "reread" /\ worker[w].pc \in OnRow /\ OnTime(worker[w])
      /\ worker[w] \in WorkerState /\ Path(w) \in Paths /\ UNCHANGED <<receipts, etags>>
  BY WorkerFacts DEF Reread, OnRow, DueInv, IInv
<1>2. CASE Become(w, PutFailed(w, TRUE))
  BY <1>1, <1>2, PutFailedOnTime DEF StaysOnTime
<1>3. CASE /\ r # NoReceipt /\ r.stateVersion = worker[w].next.stateVersion
           /\ Committed(w, r, etag)
  <2>1. r = worker[w].next /\ r \in Receipts
    <3>1. etags[Path(w)] = r.stateVersion /\ GoodReread(w)
      BY <1>1, <1>3 DEF IInv, JournalInv, VersionIsETag, GoodWorkers, Exists
    <3>2. receipts[Path(w)] \in Receipts \cup {NoReceipt}
      BY <1>1 DEF IInv, TypeInv, TypeOK
    <3> QED
      BY <1>3, <3>1, <3>2 DEF GoodReread
  <2>2. CASE Become(w, PutStart(w, r, etag))
    <3>1. StartSend(r, worker[w].now).status = "SEND_STARTED"
      BY <2>1 DEF StartSend, Receipts, ReceiptOf
    <3>2. DueWrite(Path(w), etag, StartSend(r, worker[w].now))
      BY <3>1 DEF DueWrite
    <3>3. OnTime(Put(w, "start", r, etag, StartSend(r, worker[w].now)))
      BY <1>1, <3>1, <3>2, PutOnTime
    <3>4. OnTime(Abandon(w, "RECEIPT_CONFLICT", TicksPerSecond))
      BY VerdictOnTime DEF Reasons
    <3> QED
      BY <1>1, <2>2, <3>3, <3>4 DEF StaysOnTime, PutStart
  <2>3. ASSUME NEW reason \in Reasons \ {"RETRY_NOT_DUE", "PROVIDER_RETRYABLE"},
               Become(w, DeadLetter(w, reason))
        PROVE  StaysOnTime(w)
    BY <1>1, <2>3, VerdictOnTime DEF StaysOnTime
  <2>4. CASE Become(w, SendState(w, r, etag))
    <3>1. SendState(w, r, etag).pc = "send" /\ SendState(w, r, etag).now = worker[w].now
      BY <1>1 DEF SendState, WorkerState
    <3>2. OnTime(SendState(w, r, etag))
      BY <1>1, <3>1 DEF OnTime, OnRow
    <3> QED
      BY <1>1, <2>4, <3>2 DEF StaysOnTime
  <2>5. CASE Become(w, AtRow(w, worker[w].row + 1))
    BY <1>1, <2>5, RowOnTime DEF StaysOnTime
  <2>6. CASE /\ worker[w].next.status = "RETRYABLE"
             /\ Become(w, [Abandon(w, "PROVIDER_RETRYABLE", worker[w].delay) EXCEPT !.stored = r])
    <3>1. /\ worker[w].delay <= MaxDelay /\ r.nextAttemptAt <= worker[w].now + worker[w].delay
          /\ worker[w].now <= clock
      BY <1>1, <2>1, <2>6 DEF OnTime
    <3>2. /\ worker[w].delay \in Nat /\ worker[w].now \in Nat /\ clock \in Nat
          /\ r.nextAttemptAt \in Int
      BY <1>1, <2>1, SMTT(30) DEF WorkerState, IInv, TypeInv, TypeOK, Receipts, ReceiptOf, Time, NoTime
    <3>3. /\ boundedDelay(worker[w].delay) \in Nat
          /\ boundedDelay(worker[w].delay) >= worker[w].delay
      BY <3>1, <3>2, BoundedDelayIs, MaxDelayAssumption
    <3>4. r.nextAttemptAt <= clock + boundedDelay(worker[w].delay)
      BY <3>1, <3>2, <3>3
    <3> QED
      BY <1>1, <2>6, <3>4, HoldOnTime DEF StaysOnTime
  <2> QED
    BY <1>3, <2>2, <2>3, <2>4, <2>5, <2>6 DEF Committed, SendState, Reasons
<1> QED
  BY <1>2, <1>3 DEF Reread

LEMMA SendOnTime ==
  ASSUME IInv, DueInv, NEW w \in Workers, Send(w)
  PROVE  StaysOnTime(w)
<1> DEFINE r == worker[w].stored
           now == worker[w].now
<1>1. /\ worker[w].pc = "send" /\ worker[w].pc \in OnRow /\ OnTime(worker[w])
      /\ worker[w] \in WorkerState /\ r \in Receipts /\ now \in Nat /\ now <= clock
      /\ Path(w) \in Paths /\ UNCHANGED <<receipts, etags>>
  BY WorkerFacts DEF Send, OnRow, DueInv, IInv, ControlOK, OnTime, WorkerState
<1>2. ASSUME NEW allowed, NEW next, NEW delay, next.status # "CLAIMED",
             next.status = "RETRYABLE" =>
               delay <= MaxDelay /\ next.nextAttemptAt <= now + delay,
             Become(w, PutOutcome(w, allowed, next, delay))
      PROVE  StaysOnTime(w)
  <2> DEFINE s == [Put(w, "commit", r, worker[w].etag, next) EXCEPT !.delay = delay]
  <2>1. s.pc = "upload" /\ s.now = now /\ s.next = next /\ s.delay = delay
    BY <1>1 DEF Put, WorkerState
  <2> HIDE DEF s
  <2>2. OnTime(s)
    BY <1>1, <1>2, <2>1 DEF OnTime, OnRow, DueWrite
  <2>3. OnTime(DeadLetter(w, "PROVIDER_PROTOCOL_UNKNOWN"))
    BY VerdictOnTime DEF Reasons
  <2> QED
    BY <1>1, <1>2, <2>2, <2>3 DEF PutOutcome, StaysOnTime, s
<1>3. \A status : finish(r, status).status = status
  BY <1>1 DEF finish, Receipts, ReceiptOf
<1>4. ASSUME NEW retryAfter \in RetryAfters,
             LET delay == retryDelay(r, retryAfter, Seed[Path(w)]) IN
             Become(w, PutOutcome(w, RetryAllowed(r, now, now + delay),
                                  Retry(r, now + delay), delay))
      PROVE  StaysOnTime(w)
  <2> PICK delay : delay = retryDelay(r, retryAfter, Seed[Path(w)])
    OBVIOUS
  <2>1. retryAfter \in Nat /\ Seed[Path(w)] \in Nat
    BY <1>1, WorkerAssumption
  <2>2. delay \in Nat /\ delay <= MaxDelay
    BY <1>1, <2>1, RetryDelayNat, RetryDelayBounded
  <2>3. now + delay \in Nat
    BY <1>1, <2>2, SMTT(30)
  <2>4. /\ Retry(r, now + delay).status = "RETRYABLE"
        /\ Retry(r, now + delay).nextAttemptAt = formatTime(now + delay)
    BY <1>1 DEF Retry, Receipts, ReceiptOf
  <2>5. Retry(r, now + delay).nextAttemptAt <= now + delay
    BY <2>3, <2>4, FormatTimeEarlier
  <2>6. Become(w, PutOutcome(w, RetryAllowed(r, now, now + delay), Retry(r, now + delay), delay))
    BY <1>4
  <2> QED
    BY <1>2, <2>2, <2>4, <2>5, <2>6
<1>5. ASSUME NEW allowed, NEW status \in {"ACCEPTED", "SIMULATED", "UNKNOWN", "FAILED"},
             Become(w, PutOutcome(w, allowed, finish(r, status), 0))
      PROVE  StaysOnTime(w)
  BY <1>2, <1>3, <1>5
<1> QED
  BY <1>4, <1>5 DEF Send, Success, Accept, Simulate, MarkUnknown, Fail

\* Every worker, moved or not, is on time after a step.
LEMMA WorkersOnTime ==
  ASSUME IInv, DueInv, [Next]_vars, NEW v \in Workers
  PROVE  OnTime(worker[v])'
<1>1. TypeInv /\ TypeInv'
  BY TypeStep DEF IInv
<1>2. PICK s \in GoodStates : s = worker'[v]
  BY <1>1 DEF TypeInv
<1>3. s \in WorkerState /\ ControlOK(s)
  BY DEF GoodStates
<1>4. clock \in Nat /\ clock' \in Nat /\ clock <= clock'
  <2>1. clock' = clock \/ clock' = clock + 1
    BY DEF Next, WorkerStep, vars, Receive, ReadBlobs, ScanRow, GetReceipt, LateUpload,
           GetAfterConflict, Upload, Reread, Send, Settle, Interrupt, LockExpires, Tick
  <2> QED
    BY <1>1, <2>1 DEF TypeInv, TypeOK
<1>5. ASSUME OnTime(s), s.pc = "upload" => DueWrite(Rows[Body[s.entry]][s.row], s.etag, s.next)'
      PROVE  OnTime(s)'
  <2>1. s.now \in Nat
    BY <1>3 DEF WorkerState
  <2>2. s.pc \in OnRow => s.now <= clock
    BY <1>5, Zenon DEF OnTime
  <2>3. s.pc \in OnRow => s.now <= clock'
    BY <1>4, <2>1, <2>2
  <2> QED
    BY <1>5, <2>3, Zenon DEF OnTime
<1>6. ASSUME worker'[v] = worker[v]
      PROVE  OnTime(s)'
  <2>1. OnTime(s)
    BY <1>2, <1>6 DEF DueInv
  <2>2. ASSUME s.pc = "upload"
        PROVE  DueWrite(Rows[Body[s.entry]][s.row], s.etag, s.next)'
    <3>1. PICK p \in Paths : p = Path(v)
      BY <1>1, <1>2, <1>6, <2>2, WorkerFacts DEF OnRow
    <3>2. p = Rows[Body[s.entry]][s.row]
      BY <1>2, <1>6, <3>1 DEF Path, Message
    <3>3. s.etag \in Nat /\ s.etag <= etags[p] /\ DueWrite(p, s.etag, s.next)
      BY <1>2, <1>3, <1>6, <2>1, <2>2, <3>1, <3>2
      DEF WorkerState, IInv, JournalInv, GoodWrites, GoodWrite, OnTime
    <3>4. DueWrite(p, s.etag, s.next)'
      BY <3>3, DueWriteStays
    <3> QED
      BY <3>2, <3>4
  <2> QED
    BY <1>5, <2>1, <2>2
<1>7. ASSUME NEW w \in Workers, StaysOnTime(w)
      PROVE  OnTime(s)'
  <2>1. PICK t : Become(w, t) /\ OnTime(t) /\ (t.pc = "upload" => UNCHANGED <<receipts, etags>>)
    BY <1>7 DEF StaysOnTime
  <2>2. CASE worker'[v] = worker[v]
    BY <1>6, <2>2
  <2>3. CASE worker'[v] # worker[v]
    <3>1. s = t
      BY <1>1, <1>2, <2>1, <2>3, BecomeIs
    <3>2. ASSUME s.pc = "upload"
          PROVE  DueWrite(Rows[Body[s.entry]][s.row], s.etag, s.next)'
      <4>1. PICK p : p = Rows[Body[s.entry]][s.row]
        OBVIOUS
      <4>2. p \in Paths
        <5>1. s.entry \in Entries /\ s.row \in 1..Len(Rows[Body[s.entry]])
          BY <1>3, <3>2 DEF ControlOK, OnRow
        <5>2. Rows[Body[s.entry]] \in Seq(Paths)
          BY <5>1, WorkerAssumption
        <5> QED
          BY <4>1, <5>1, <5>2
      <4>3. UNCHANGED <<receipts, etags>> /\ DueWrite(p, s.etag, s.next)
        BY <2>1, <3>1, <3>2, <4>1 DEF OnTime
      <4>4. Exists(p) => receipts[p].nextAttemptAt \in Int
        BY <1>1, <4>2 DEF TypeInv, TypeOK, Exists, Receipts, ReceiptOf, Time, NoTime
      <4>5. DueWrite(p, s.etag, s.next)'
        BY <1>4, <4>3, <4>4 DEF DueWrite, Exists
      <4> QED
        BY <4>1, <4>5
    <3> QED
      BY <1>5, <2>1, <3>1, <3>2
  <2> QED
    BY <2>2, <2>3
<1>8. OnTime(s)'
  <2>1. ASSUME NEW w \in Workers, WorkerStep(w) \/ Interrupt(w)
        PROVE  StaysOnTime(w)
    <3>1. CASE (\E e \in Entries : Receive(w, e)) \/ ReadBlobs(w) \/ ScanRow(w) \/ Settle(w)
               \/ Interrupt(w)
      BY <3>1, ReadOnTime
    <3>2. CASE GetReceipt(w) \/ GetAfterConflict(w)
      BY <3>2, GetOnTime
    <3>3. CASE Upload(w) \/ Reread(w) \/ Send(w)
      BY <3>3, UploadOnTime, RereadOnTime, SendOnTime
    <3> QED
      BY <2>1, <3>1, <3>2, <3>3 DEF WorkerStep
  <2>2. CASE (\E e \in Entries : LockExpires(e)) \/ LateUpload \/ Tick \/ UNCHANGED vars
    BY <1>6, <2>2 DEF LockExpires, LateUpload, Tick, vars
  <2> QED
    BY <1>7, <2>1, <2>2 DEF Next
<1> QED
  BY <1>2, <1>8 DEF OnTime, DueWrite, Exists

\* The retry a worker is writing is not scheduled too far away.
LEMMA WritesDueSoon ==
  ASSUME IInv, DueInv, NEW w \in Workers, worker[w].pc = "upload"
  PROVE  /\ DueSoon(worker[w].next)
         /\ DueWrite(Path(w), worker[w].etag, worker[w].next)
<1>1. OnTime(worker[w]) /\ worker[w].pc \in OnRow /\ worker[w] \in WorkerState
      /\ worker[w].next \in Receipts /\ clock \in Nat
  BY WorkerFacts DEF DueInv, OnRow, IInv, TypeInv, TypeOK, ControlOK
<1>2. DueWrite(Path(w), worker[w].etag, worker[w].next)
  BY <1>1 DEF OnTime, Path, Message
<1>3. DueSoon(worker[w].next)
  <2> SUFFICES ASSUME worker[w].next.status = "RETRYABLE"
               PROVE  worker[w].next.nextAttemptAt <= clock + MaxDelay
    BY DEF DueSoon
  <2>1. /\ worker[w].delay <= MaxDelay /\ worker[w].now <= clock
        /\ worker[w].next.nextAttemptAt <= worker[w].now + worker[w].delay
    BY <1>1 DEF OnTime
  <2>2. /\ worker[w].delay \in Nat /\ worker[w].now \in Nat
        /\ worker[w].next.nextAttemptAt \in Int
    <3>1. worker[w].delay \in Nat /\ worker[w].now \in Nat
      BY <1>1 DEF WorkerState
    <3> QED
      BY <1>1, <3>1, ReceiptTime
  <2> QED
    BY <1>1, <2>1, <2>2, MaxDelayAssumption, SMTT(30)
<1> QED
  BY <1>2, <1>3

LEMMA DueSoonStays ==
  ASSUME IInv, [Next]_vars, NEW r \in Receipts, DueSoon(r)
  PROVE  DueSoon(r)'
<1>1. clock \in Nat /\ r.nextAttemptAt \in Int
  BY DEF IInv, TypeInv, TypeOK, Receipts, ReceiptOf, Time, NoTime
<1>2. clock' = clock \/ clock' = clock + 1
  BY DEF Next, WorkerStep, vars, Receive, ReadBlobs, ScanRow, GetReceipt, LateUpload,
         GetAfterConflict, Upload, Reread, Send, Settle, Interrupt, LockExpires, Tick
<1> QED
  BY <1>1, <1>2, MaxDelayAssumption DEF DueSoon

\* What a step stores was about to be stored, by a worker or by a late write.
LEMMA StoredWas ==
  ASSUME IInv, [Next]_vars, NEW p \in Paths, receipts'[p] # receipts[p]
  PROVE  \/ \E w \in Workers :
              /\ worker[w].pc = "upload" /\ Path(w) = p /\ worker[w].etag = etags[p]
              /\ worker[w].next = receipts'[p]
         \/ \E x \in late : x.path = p /\ x.etag = etags[p] /\ x.receipt = receipts'[p]
<1>1. ASSUME NEW q, NEW next, ReplaceReceipt(q, next)
      PROVE  q = p /\ receipts'[p] = next
  BY <1>1 DEF ReplaceReceipt, IInv, TypeInv, TypeOK
<1>2. ASSUME NEW w \in Workers, Upload(w)
      PROVE  /\ worker[w].pc = "upload" /\ Path(w) = p /\ worker[w].etag = etags[p]
             /\ worker[w].next = receipts'[p]
  <2>1. /\ worker[w].pc = "upload"
        /\ etags[Path(w)] = worker[w].etag /\ ReplaceReceipt(Path(w), worker[w].next)
    BY <1>2 DEF Upload, ETagMatches
  <2>2. Path(w) = p /\ receipts'[p] = worker[w].next
    BY <1>1, <2>1
  <2> QED
    BY <2>1, <2>2
<1>3. ASSUME LateUpload
      PROVE  \E x \in late : x.path = p /\ x.etag = etags[p] /\ x.receipt = receipts'[p]
  BY <1>1, <1>3 DEF LateUpload, ETagMatches
<1> QED
  BY <1>2, <1>3
  DEF Next, WorkerStep, vars, Receive, ReadBlobs, ScanRow, GetReceipt,
      GetAfterConflict, Reread, Send, Settle, Interrupt, LockExpires, Tick

LEMMA DueStep == IInv /\ DueInv /\ [Next]_vars => DueInv'
<1> SUFFICES ASSUME IInv, DueInv, [Next]_vars PROVE DueInv'
  OBVIOUS
<1>1. \A w \in Workers : OnTime(worker[w])'
  BY WorkersOnTime
<1>2. ASSUME NEW p \in Paths, Exists(p)'
      PROVE  DueSoon(receipts[p])'
  <2>1. TypeInv'
    BY TypeStep DEF IInv
  <2>2. PICK r \in Receipts : r = receipts'[p]
    BY <1>2, <2>1 DEF TypeInv, TypeOK, Exists
  <2>3. DueSoon(r)
    <3>1. CASE receipts'[p] = receipts[p]
      BY <1>2, <2>2, <3>1 DEF DueInv, Exists
    <3>2. CASE receipts'[p] # receipts[p]
      BY <2>2, <3>2, StoredWas, WritesDueSoon DEF DueInv
    <3> QED
      BY <3>1, <3>2
  <2>4. DueSoon(r)'
    BY <2>3, DueSoonStays
  <2> QED
    BY <2>2, <2>4 DEF DueSoon
<1>3. ASSUME NEW x \in late'
      PROVE  DueSoon(x.receipt)' /\ DueWrite(x.path, x.etag, x.receipt)'
  <2>1. /\ x.receipt \in Receipts /\ x.path \in Paths /\ x.etag \in Nat
        /\ x.etag <= etags[x.path]
        /\ DueSoon(x.receipt) /\ DueWrite(x.path, x.etag, x.receipt)
    <3>1. CASE x \in late
      BY <3>1 DEF DueInv, IInv, TypeInv, TypeOK, Write, JournalInv, GoodWrites, GoodWrite
    <3>2. ASSUME NEW w \in Workers, Upload(w), x \notin late
          PROVE  /\ x.receipt \in Receipts /\ x.path \in Paths /\ x.etag \in Nat
                 /\ x.etag <= etags[x.path]
                 /\ DueSoon(x.receipt) /\ DueWrite(x.path, x.etag, x.receipt)
      <4>1. /\ worker[w].pc = "upload" /\ worker[w].pc \in OnRow
            /\ x = [path |-> Path(w), etag |-> worker[w].etag, receipt |-> worker[w].next]
        BY <3>2 DEF Upload, OnRow
      <4>2. x.path = Path(w) /\ x.receipt = worker[w].next /\ x.etag = worker[w].etag
        BY <4>1
      <4>3. /\ Path(w) \in Paths /\ worker[w].next \in Receipts /\ worker[w].etag \in Nat
            /\ worker[w].etag <= etags[Path(w)]
        BY <4>1, WorkerFacts
        DEF IInv, ControlOK, WorkerState, JournalInv, GoodWrites, GoodWrite
      <4> QED
        BY <4>1, <4>2, <4>3, WritesDueSoon
    <3> QED
      BY <3>1, <3>2
      DEF Next, WorkerStep, vars, Receive, ReadBlobs, ScanRow, GetReceipt, LateUpload,
          GetAfterConflict, Reread, Send, Settle, Interrupt, LockExpires, Tick
  <2> QED
    BY <2>1, DueSoonStays, DueWriteStays
<1> QED
  BY <1>1, <1>2, <1>3 DEF DueInv

(***************************************************************************)
(* Retries are never scheduled too far away, and claims of them are made   *)
(* when they are due.                                                      *)
(***************************************************************************)
THEOREM DueInductive == Spec => []DueInv
<1>1. Init => DueInv
  <2> SUFFICES ASSUME Init PROVE DueInv
    OBVIOUS
  <2>1. \A w \in Workers : OnTime(worker[w])
    <3>1. Idle.pc = "idle"
      BY DEF Idle
    <3> QED
      BY <3>1, CalmOnTime DEF Init, OnRow
  <2>2. \A p \in Paths : ~Exists(p)
    BY DEF Init, Exists
  <2> QED
    BY <2>1, <2>2 DEF Init, DueInv
<1>2. IInv /\ DueInv /\ [Next]_vars => DueInv'
  BY DueStep
<1> QED
  BY <1>1, <1>2, Inductive, PTL DEF Spec

(***************************************************************************)
(* A delivery abandoned because its retry lies in the future is held until *)
(* the retry is due: neither the old clock reading of the row nor the      *)
(* clamp of boundedDelay makes the hold too short.                         *)
(***************************************************************************)
THEOREM HeldUntilDue == Spec => []AbandonHoldsUntilDue
<1>1. DueInv => AbandonHoldsUntilDue
  BY DEF DueInv, OnTime, AbandonHoldsUntilDue
<1> QED
  BY <1>1, DueInductive, PTL

(***************************************************************************)
(* A retry is claimed only when it is due, although the claim may be       *)
(* stored long after it was decided (Reclaim, Upload, LateUpload).         *)
(***************************************************************************)
THEOREM RetriesWait == Spec => RetryOnlyWhenDue
<1>1. ASSUME IInv, DueInv, [Next]_vars, NEW p \in Paths, Exists(p),
             receipts[p].status = "RETRYABLE", receipts'[p].status = "CLAIMED"
      PROVE  clock >= receipts[p].nextAttemptAt
  <2>1. receipts'[p] # receipts[p]
    BY <1>1
  <2>2. DueWrite(p, etags[p], receipts'[p])
    BY <1>1, <2>1, StoredWas, WritesDueSoon DEF DueInv
  <2> QED
    BY <1>1, <2>2 DEF DueWrite
<1>2. ASSUME IInv, DueInv, [Next]_vars
      PROVE  [\A p \in Paths :
                Exists(p) /\ receipts[p].status = "RETRYABLE" /\ receipts'[p].status = "CLAIMED"
                  => clock >= receipts[p].nextAttemptAt]_vars
  BY <1>1, <1>2
<1> QED
  BY <1>2, Inductive, DueInductive, PTL DEF Spec, RetryOnlyWhenDue
==============================================================================
