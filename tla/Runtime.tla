-------------------------------- MODULE Runtime --------------------------------
(***************************************************************************)
(* The worker process around Process (internal/distribution/runtime.go):   *)
(* the receive loop, one delivery at a time, and beside each delivery a    *)
(* goroutine that renews the message lock.  The two share a context that   *)
(* either of them, or a shutdown, cancels, and a channel of capacity one.  *)
(*                                                                         *)
(* Process is seen from outside: calls to storage, which take any time,    *)
(* and calls to the mail provider, which time out, one per row.  What it   *)
(* does to receipts is module Worker, where a delivery that ends without   *)
(* being settled is the action Interrupt.                                  *)
(*                                                                         *)
(* Time is in ticks.  Timers count down, and a tick passes only when both  *)
(* goroutines wait: local steps take no time, calls and timers do.         *)
(*                                                                         *)
(* A definition named ...Slip is a plausible mistake in the one after it;  *)
(* no specification uses it.                                               *)
(***************************************************************************)
EXTENDS Naturals

CONSTANTS
  TickSeconds,    \* seconds in a tick
  LockSeconds,    \* how long the queue keeps a lock that is not renewed
  RetryAfters     \* seconds for which an abandoned delivery may be held

ASSUME RuntimeAssumption ==
  /\ TickSeconds \in Nat \ {0}
  /\ LockSeconds \in Nat
  /\ RetryAfters \subseteq 1 .. 300 /\ RetryAfters # {}

VARIABLES
  shutdown,   \* the process was told to stop: the parent context is cancelled
  health,     \* the health server: "serving" or "failed"
  main,       \* the goroutine of RunWorker and processReceivedMessage
  cancelled,  \* cancel() of the message context was called
  renewer,    \* the goroutine of renewMessageLock
  renewDone,  \* the channel between them: "empty", "nil" or "error"
  broker      \* the queue's view of the message being delivered

vars == <<shutdown, health, main, cancelled, renewer, renewDone, broker>>

Ticks(seconds) == (seconds + TickSeconds - 1) \div TickSeconds

receiveTimeout == Ticks(5)
receivePause == Ticks(2)
mailTimeout == Ticks(30)
settleTimeout == Ticks(15)
renewTimeout == Ticks(10)

renewInterval == Ticks(30)

renewBudget == Ticks(15 * 60)

\* Larger batches, with the same budget for renewals.
maxPublicationBatchSizeSlip == 25

maxPublicationBatchSize == 10

\* The repository does not set the lock duration of the queue.  The code relies
\* on one that outlasts the wait for a tick, the renewal and the settlement.
ASSUME LockAssumption == Ticks(LockSeconds) > renewInterval + renewTimeout + settleTimeout

Dispositions == {"Complete", "Abandon", "DeadLetter"}

\* messageCtx.Err() # nil
Done == cancelled \/ shutdown

Loop(pc, timer) ==
  [pc |-> pc, timer |-> timer, mails |-> 0, disposition |-> "Complete", cut |-> FALSE, slow |-> FALSE]

Ended ==
  [pc |-> "ended", timer |-> 0, ticker |-> renewInterval, fired |-> FALSE, budget |-> renewBudget]

Init ==
  /\ shutdown = FALSE
  /\ health = "serving"
  /\ main = Loop("select", 0)
  /\ cancelled = FALSE
  /\ renewer = Ended
  /\ renewDone = "empty"
  /\ broker = [state |-> "free", left |-> 0]

Working == {"storage", "mail"}
InDelivery == main.pc \in Working \cup {"hold", "cancel", "join", "settle"}

------------------------------------------------------------------------------
(***************************************************************************)
(* The receive loop.                                                       *)
(***************************************************************************)
Select ==
  /\ main.pc = "select"
  /\ \/ shutdown /\ main' = Loop("returned", 0)
     \/ health = "failed" /\ main' = Loop("returned", 0)
     \/ ~shutdown /\ health = "serving" /\ main' = Loop("receive", receiveTimeout)
  /\ UNCHANGED <<shutdown, health, cancelled, renewer, renewDone, broker>>

\* No message within the timeout, a shutdown, or an error of the queue.
ReceiveFails ==
  /\ main.pc = "receive"
  /\ \/ (main.timer = 0 \/ shutdown) /\ main' = Loop("select", 0)
     \/ main' = Loop("pause", receivePause)
  /\ UNCHANGED <<shutdown, health, cancelled, renewer, renewDone, broker>>

\* waitContext(ctx, 2s): either case when both are ready.
Pause ==
  /\ main.pc = "pause"
  /\ \/ shutdown /\ main' = Loop("returned", 0)
     \/ main.timer = 0 /\ main' = Loop("select", 0)
  /\ UNCHANGED <<shutdown, health, cancelled, renewer, renewDone, broker>>

\* A message arrives, processReceivedMessage starts its renewer and Process.
Deliver ==
  /\ main.pc = "receive"
  /\ broker' = [state |-> "locked", left |-> Ticks(LockSeconds)]
  /\ main' = Loop("storage", 0)
  /\ cancelled' = FALSE
  /\ renewer' = [Ended EXCEPT !.pc = "select"]
  /\ renewDone' = "empty"
  /\ UNCHANGED <<shutdown, health>>

------------------------------------------------------------------------------
(***************************************************************************)
(* One delivery: Process, the hold before an abandon, and the settlement.  *)
(***************************************************************************)
AfterProcess(disposition, retryAfter, cut) ==
  main' = [main EXCEPT !.pc = IF disposition = "Abandon" THEN "hold" ELSE "cancel",
                       !.timer = IF disposition = "Abandon" THEN Ticks(retryAfter) ELSE 0,
                       !.mails = 0,
                       !.disposition = disposition,
                       !.cut = cut]

\* Process ends with a verdict of its own, or because a call met the
\* cancelled context: then it abandons, or dead-letters where the error of
\* the call is taken for a fault of the batch.
Verdict ==
  /\ main.pc \in Working
  /\ \E disposition \in Dispositions, retryAfter \in RetryAfters, cut \in BOOLEAN :
       /\ cut => Done /\ disposition # "Complete"
       /\ AfterProcess(disposition, retryAfter, cut)
  /\ UNCHANGED <<shutdown, health, cancelled, renewer, renewDone, broker>>

\* A storage call returns and the next row is sent to the provider.
StorageReturns ==
  /\ main.pc = "storage" /\ main.mails < maxPublicationBatchSize
  /\ main' = [main EXCEPT !.pc = "mail", !.timer = mailTimeout, !.mails = main.mails + 1]
  /\ UNCHANGED <<shutdown, health, cancelled, renewer, renewDone, broker>>

\* The provider answers or times out; the outcome is stored next.
MailReturns ==
  /\ main.pc = "mail"
  /\ main' = [main EXCEPT !.pc = "storage", !.timer = 0]
  /\ UNCHANGED <<shutdown, health, cancelled, renewer, renewDone, broker>>

\* waitContext(messageCtx, boundedDelay(result.RetryAfter)); a hold that is
\* cut short ends in context.Canceled instead of a settlement.
Hold ==
  /\ main.pc = "hold"
  /\ \/ /\ Done
        /\ main' = [main EXCEPT !.pc = "cancel", !.timer = 0, !.disposition = "Canceled", !.cut = TRUE]
     \/ /\ main.timer = 0
        /\ main' = [main EXCEPT !.pc = "cancel"]
  /\ UNCHANGED <<shutdown, health, cancelled, renewer, renewDone, broker>>

Cancel ==
  /\ main.pc = "cancel"
  /\ cancelled' = TRUE
  /\ main' = [main EXCEPT !.pc = "join"]
  /\ UNCHANGED <<shutdown, health, renewer, renewDone, broker>>

ReturnUnsettled ==
  /\ main' = Loop("select", 0)
  /\ broker' = [state |-> "free", left |-> 0]

\* The renewer is not waited for.
JoinSlip ==
  /\ main.pc = "join"
  /\ main' = [main EXCEPT !.pc = "settle", !.timer = settleTimeout]
  /\ UNCHANGED <<shutdown, health, cancelled, renewer, renewDone, broker>>

\* renewErr := <-renewDone
Join ==
  /\ main.pc = "join" /\ renewDone # "empty"
  /\ renewDone' = "empty"
  /\ IF renewDone = "error" \/ main.disposition = "Canceled"
       THEN ReturnUnsettled
       ELSE /\ main' = [main EXCEPT !.pc = "settle", !.timer = settleTimeout]
            /\ UNCHANGED broker
  /\ UNCHANGED <<shutdown, health, cancelled, renewer>>

\* The settlement has a context of its own.
SettleAppliedSlip == broker.state = "locked"

\* The settlement derives from the parent context: after a shutdown no
\* request leaves the process.  The queue refuses it once the lock is gone.
SettleApplied == broker.state = "locked" /\ ~shutdown

Settle ==
  /\ main.pc = "settle"
  /\ \/ /\ SettleApplied
        /\ broker' = [state |-> "settled", left |-> 0]
        /\ main' = Loop("select", 0)
     \/ ReturnUnsettled
  /\ UNCHANGED <<shutdown, health, cancelled, renewer, renewDone>>

------------------------------------------------------------------------------
(***************************************************************************)
(* renewMessageLock: a select over the context, the budget and the ticker, *)
(* in which any case that is ready may be taken.                           *)
(***************************************************************************)
\* It ends without a word.
RenewerStopsSlip ==
  /\ renewer.pc = "select" /\ Done
  /\ renewer' = Ended
  /\ UNCHANGED <<shutdown, health, main, cancelled, renewDone, broker>>

\* It reports and goes on.
RenewerLoopsSlip ==
  /\ renewer.pc = "select" /\ Done
  /\ renewDone' = "nil"
  /\ UNCHANGED <<shutdown, health, main, cancelled, renewer, broker>>

RenewerStops ==
  /\ renewer.pc = "select" /\ Done
  /\ renewDone' = "nil"
  /\ renewer' = Ended
  /\ UNCHANGED <<shutdown, health, main, cancelled, broker>>

\* The context is not cancelled.
BudgetExhaustedSlip ==
  /\ renewer.pc = "select" /\ renewer.budget = 0
  /\ renewer' = [renewer EXCEPT !.pc = "report"]
  /\ UNCHANGED <<shutdown, health, main, cancelled, renewDone, broker>>

BudgetExhausted ==
  /\ renewer.pc = "select" /\ renewer.budget = 0
  /\ renewer' = [renewer EXCEPT !.pc = "giveUp"]
  /\ UNCHANGED <<shutdown, health, main, cancelled, renewDone, broker>>

StartRenewal ==
  /\ renewer.pc = "select" /\ renewer.fired
  /\ renewer' = [renewer EXCEPT !.pc = "renew", !.timer = renewTimeout, !.fired = FALSE]
  /\ UNCHANGED <<shutdown, health, main, cancelled, renewDone, broker>>

\* The call extends a lock that is still held.  Its answer may be lost, it
\* may be refused, time out, or be cut short by the context.
RenewMessageLock ==
  /\ renewer.pc = "renew"
  /\ \E applied, ok \in BOOLEAN :
       /\ applied => broker.state = "locked"
       /\ ok => applied
       /\ broker' = IF applied THEN [broker EXCEPT !.left = Ticks(LockSeconds)] ELSE broker
       /\ renewer' = [renewer EXCEPT !.pc = IF ok THEN "select" ELSE "failed", !.timer = 0]
  /\ UNCHANGED <<shutdown, health, main, cancelled, renewDone>>

\* A failed call is tried again at the next tick.
RenewalFailedSlip ==
  /\ renewer.pc = "failed"
  /\ renewer' = [renewer EXCEPT !.pc = "select"]
  /\ UNCHANGED <<shutdown, health, main, cancelled, renewDone, broker>>

\* A failed call is an error only while the context is not cancelled.
RenewalFailed ==
  /\ renewer.pc = "failed"
  /\ IF Done
       THEN renewDone' = "nil" /\ renewer' = Ended
       ELSE renewer' = [renewer EXCEPT !.pc = "giveUp"] /\ UNCHANGED renewDone
  /\ UNCHANGED <<shutdown, health, main, cancelled, broker>>

GiveUp ==
  /\ renewer.pc = "giveUp"
  /\ cancelled' = TRUE
  /\ renewer' = [renewer EXCEPT !.pc = "report"]
  /\ UNCHANGED <<shutdown, health, main, renewDone, broker>>

Report ==
  /\ renewer.pc = "report"
  /\ renewDone' = "error"
  /\ renewer' = Ended
  /\ UNCHANGED <<shutdown, health, main, cancelled, broker>>

------------------------------------------------------------------------------
(***************************************************************************)
(* The process is told to stop, its health server fails, the queue takes   *)
(* a lock away, and time passes.                                           *)
(***************************************************************************)
Shutdown ==
  /\ ~shutdown /\ main.pc # "returned"
  /\ shutdown' = TRUE
  /\ UNCHANGED <<health, main, cancelled, renewer, renewDone, broker>>

HealthFails ==
  /\ health = "serving" /\ main.pc # "returned"
  /\ health' = "failed"
  /\ UNCHANGED <<shutdown, main, cancelled, renewer, renewDone, broker>>

TakeLock ==
  /\ broker.state = "locked"
  /\ broker' = [state |-> "taken", left |-> 0]
  /\ UNCHANGED <<shutdown, health, main, cancelled, renewer, renewDone>>

\* A goroutine that can go on without waiting for anybody or anything.
MainReady ==
  \/ main.pc \in {"select", "cancel"}
  \/ main.pc \in {"receive", "pause", "settle"} /\ (main.timer = 0 \/ shutdown)
  \/ main.pc \in {"mail", "hold"} /\ (main.timer = 0 \/ Done)
  \/ main.pc = "storage" /\ Done
  \/ main.pc = "join" /\ renewDone # "empty"

RenewerReady ==
  \/ renewer.pc \in {"failed", "giveUp", "report"}
  \/ renewer.pc = "select" /\ (Done \/ renewer.fired \/ renewer.budget = 0)
  \/ renewer.pc = "renew" /\ (Done \/ renewer.timer = 0)

Before(timer) == IF timer = 0 THEN 0 ELSE timer - 1

\* The ticker drops a tick that finds its channel full.
RenewerLater ==
  IF renewer.pc = "ended"
    THEN renewer
    ELSE [renewer EXCEPT !.timer = Before(@),
                         !.budget = Before(@),
                         !.fired = @ \/ renewer.ticker = 1,
                         !.ticker = IF @ = 1 THEN renewInterval ELSE @ - 1]

BrokerLater ==
  IF broker.state # "locked" THEN broker
  ELSE IF broker.left = 1 THEN [state |-> "expired", left |-> 0]
  ELSE [broker EXCEPT !.left = @ - 1]

Tick ==
  /\ ~MainReady /\ ~RenewerReady /\ main.pc # "returned"
  /\ main' = [main EXCEPT !.timer = Before(@), !.slow = @ \/ main.pc = "storage"]
  /\ renewer' = RenewerLater
  /\ broker' = BrokerLater
  /\ UNCHANGED <<shutdown, health, cancelled, renewDone>>

Main ==
  \/ Select \/ ReceiveFails \/ Pause \/ Deliver
  \/ Verdict \/ StorageReturns \/ MailReturns \/ Hold \/ Cancel \/ Join \/ Settle

Renewer ==
  \/ RenewerStops \/ BudgetExhausted \/ StartRenewal
  \/ RenewMessageLock \/ RenewalFailed \/ GiveUp \/ Report

Next == Main \/ Renewer \/ Shutdown \/ HealthFails \/ TakeLock \/ Tick

\* A goroutine that is ready runs at last, and time passes.  Nobody promises
\* that a storage call answers before its context is cancelled.
Spec ==
  /\ Init /\ [][Next]_vars
  /\ WF_vars(MainReady /\ Main)
  /\ WF_vars(RenewerReady /\ Renewer)
  /\ WF_vars(Tick)

------------------------------------------------------------------------------
\* The state of both goroutines, their channel and the queue stays within
\* what processReceivedMessage and renewMessageLock can hold; the channel's
\* one place is never asked to hold two reports.
TypeOK ==
  /\ shutdown \in BOOLEAN /\ cancelled \in BOOLEAN
  /\ health \in {"serving", "failed"}
  /\ main.pc \in {"select", "receive", "pause", "returned", "storage", "mail",
                  "hold", "cancel", "join", "settle"}
  /\ main.timer \in 0 .. Ticks(300) /\ main.mails \in 0 .. maxPublicationBatchSize
  /\ main.disposition \in Dispositions \cup {"Canceled"}
  /\ main.cut \in BOOLEAN /\ main.slow \in BOOLEAN
  /\ renewer.pc \in {"ended", "select", "renew", "failed", "giveUp", "report"}
  /\ renewer.timer \in 0 .. renewTimeout /\ renewer.ticker \in 1 .. renewInterval
  /\ renewer.budget \in 0 .. renewBudget /\ renewer.fired \in BOOLEAN
  /\ renewDone \in {"empty", "nil", "error"}
  /\ renewDone # "empty" => renewer.pc = "ended"
  /\ broker.state \in {"free", "locked", "settled", "expired", "taken"}
  /\ broker.left \in 0 .. Ticks(LockSeconds)

\* What a cancelled context cut short is never settled: Process reports a
\* dead letter when validateBatch or the row stream is cancelled
\* (worker.go:177, 205), and an abandon may have been held for too short a
\* time, but the error of the renewer, or the parent context of the
\* settlement, keeps that verdict from the queue.
CutShortUnsettled ==
  [][broker.state = "locked" /\ broker'.state = "settled" => ~main.cut]_vars

\* processReceivedMessage waits for the renewer before it settles or returns:
\* no lock is renewed beside a settlement or after it, and no delivery
\* leaves a goroutine behind.
NoRenewerLeft ==
  renewer.pc # "ended" => main.pc \in Working \cup {"hold", "cancel", "join"}

\* With renewals every 30 seconds, calls of at most 10 and a settlement of at
\* most 15, the lock never runs out under a delivery, however long storage
\* takes; it is lost only when the queue takes it away.
LockKept == InDelivery => broker.state # "expired"

\* Ten rows at the provider's longest timeout and the longest hold fit into
\* the 15 minutes of renewals: only slow storage can use the budget up.
BudgetOutlastsProvider == renewer.budget = 0 => main.slow

\* Every delivery ends, also when a storage call never answers: the budget of
\* the renewer cancels the context that the call waits on.
DeliveryEnds == InDelivery ~> ~InDelivery

\* A shutdown, or a failed health server, at last makes RunWorker return,
\* with no renewer left, whatever the loop or a delivery was waiting for.
StopEnds == (shutdown \/ health = "failed") ~> (main.pc = "returned" /\ renewer.pc = "ended")
==============================================================================
