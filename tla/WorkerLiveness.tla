---------------------------- MODULE WorkerLiveness ----------------------------
(***************************************************************************)
(* What the workers of Worker eventually do once faults have stopped.      *)
(*                                                                         *)
(* Until healthy becomes TRUE anything in Worker can happen.  From then on *)
(* calls to the queue and the stores succeed, no worker is interrupted and *)
(* only the lock of a delivery that nobody works on expires; the provider  *)
(* goes on answering as it likes.                                          *)
(*                                                                         *)
(* Time goes on for ever.  At MaxClock the origin of the clock moves       *)
(* instead of the clock: every stored time is lowered by one tick, down to *)
(* zero.  The program uses only differences of times, and treats all ages  *)
(* beyond ClaimTimeout alike.                                              *)
(***************************************************************************)
EXTENDS Worker

CONSTANT StartsHealthy  \* FALSE: there is a time of faults first

VARIABLE healthy

\* formatTime commutes with Rebase, and an age beyond the timeout can be told.
ASSUME LivenessAssumption ==
  TicksPerSecond = 1 /\ MaxClock > ClaimTimeout /\ StartsHealthy \in BOOLEAN

liveVars == <<vars, healthy>>

LiveInit == Init /\ healthy = StartsHealthy

------------------------------------------------------------------------------
earlier(t) == IF t > 0 THEN t - 1 ELSE t

ReceiptEarlier(r) ==
  IF r = NoReceipt
  THEN r
  ELSE [r EXCEPT !.claimedAt     = earlier(@),
                 !.sendStartedAt = earlier(@),
                 !.nextAttemptAt = earlier(@)]

(***************************************************************************)
(* The origin of the clock moves.  This waits for a worker that is in the  *)
(* middle of a row with an old clock reading, so that a time cut off at    *)
(* zero still looks stale to it; the calls of a row time out in the code.  *)
(***************************************************************************)
Rebase ==
  /\ clock = MaxClock
  /\ \A w \in Workers :
       worker[w].pc \in {"get", "reget", "upload", "reread", "send"} =>
         worker[w].now > ClaimTimeout
  /\ receipts' = [p \in Paths |-> ReceiptEarlier(receipts[p])]
  /\ late' = {[x EXCEPT !.receipt = ReceiptEarlier(@)] : x \in late}
  /\ worker' = [w \in Workers |->
                  [worker[w] EXCEPT !.now    = earlier(@),
                                    !.wakeAt = earlier(@),
                                    !.stored = ReceiptEarlier(@),
                                    !.next   = ReceiptEarlier(@)]]
  /\ UNCHANGED <<queue, holder, etags, clock, requests, effects, audits>>

TimePasses == (Tick \/ Rebase) /\ UNCHANGED healthy

Recover == ~healthy /\ healthy' = TRUE /\ UNCHANGED vars

\* Before the faults stop.
FaultyStep ==
  /\ ~healthy
  /\ \/ \E w \in Workers : WorkerStep(w) \/ Interrupt(w)
     \/ \E e \in Entries : LockExpires(e)
     \/ LateUpload
  /\ UNCHANGED healthy

\* The call that the step makes did not fail.
CallSucceeds(w) ==
  LET s == worker[w]
      t == worker'[w]
  IN  /\ t.fault = "none"
      /\ t.reason # "RECEIPT_UNAVAILABLE"
      /\ s.pc = "reget" => ~(t.disposition = "ABANDON" /\ t.reason = "RECEIPT_CONFLICT")
      /\ s.pc = "upload" =>
           /\ late' = late
           /\ ETagMatches(Path(w), s.etag) => t.pc = "reread"
      /\ s.pc = "reread" /\ receipts[Path(w)].stateVersion = s.next.stateVersion =>
           t.reason \notin {"RECEIPT_CONFLICT", "RECEIPT_COMMIT_UNKNOWN"}

HealthyStep(w) ==
  /\ healthy
  /\ WorkerStep(w)
  /\ CallSucceeds(w)
  /\ UNCHANGED healthy

OrphanExpires(e) ==
  /\ holder[e] # NoWorker
  /\ worker[holder[e]].entry # e
  /\ LockExpires(e)
  /\ UNCHANGED healthy

HealthyNext ==
  \/ \E w \in Workers : HealthyStep(w)
  \/ \E e \in Entries : healthy /\ OrphanExpires(e)
  \/ healthy /\ LateUpload /\ UNCHANGED healthy

LiveNext == FaultyStep \/ Recover \/ HealthyNext \/ TimePasses

(***************************************************************************)
(* Fairness: the faults stop at some time, the clock runs, a worker that   *)
(* can take a step takes one (RunWorker loops without end), and the broker *)
(* returns a delivery that nobody works on.                                *)
(***************************************************************************)
LiveSpec ==
  /\ LiveInit
  /\ [][LiveNext]_liveVars
  /\ WF_liveVars(Recover)
  /\ WF_liveVars(TimePasses)
  /\ \A w \in Workers : WF_liveVars(HealthyStep(w))
  /\ \A e \in Entries : WF_liveVars(OrphanExpires(e))

------------------------------------------------------------------------------
RowsOf(e) == {Rows[Body[e]][i] : i \in 1..Len(Rows[Body[e]])}

\* A claim that took the last attempt and was left behind.
ExhaustedClaim(p) ==
  /\ Exists(p)
  /\ receipts[p].status = "CLAIMED"
  /\ receipts[p].attemptCount = MaxAttempts

(***************************************************************************)
(* Every delivery is settled at last, whatever faults came before: no mix  *)
(* of stale claims, stale sends, retries and held deliveries goes round    *)
(* for ever.  The one exception is a claim that took the last attempt and  *)
(* stays: no later delivery ends it.                                       *)
(***************************************************************************)
EverySettled ==
  \A e \in Entries : queue[e] = "queued" ~>
    (queue[e] # "queued" \/ [](\E p \in RowsOf(e) : ExhaustedClaim(p)))

(***************************************************************************)
(* Workers that hold two copies of one message do not keep each other from *)
(* settling them: without faults each delivery is settled, whatever        *)
(* conflicts their writes meet and however slow each of them is.           *)
(***************************************************************************)
ContentionEnds == \A e \in Entries : <>(queue[e] # "queued")

(***************************************************************************)
(* A send whose outcome nobody recorded does not stay open while its       *)
(* message is delivered: it becomes UNKNOWN or is finished (RecoverStale). *)
(***************************************************************************)
StaleSendEnds ==
  \A e \in Entries : \A p \in RowsOf(e) :
    (queue[e] = "queued" /\ Exists(p) /\ receipts[p].status = "SEND_STARTED") ~>
      (queue[e] # "queued" \/ receipts[p].status # "SEND_STARTED")

(***************************************************************************)
(* Stale pre-send work is reclaimed while its message is delivered, as the *)
(* comment on RecoverStale says.                                           *)
(***************************************************************************)
StaleClaimEnds ==
  \A e \in Entries : \A p \in RowsOf(e) :
    (queue[e] = "queued" /\ Exists(p) /\ receipts[p].status = "CLAIMED") ~>
      (queue[e] # "queued" \/ receipts[p].status # "CLAIMED")
==============================================================================
