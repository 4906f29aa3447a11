----------------------------- MODULE RuntimeSafety -----------------------------
(***************************************************************************)
(* What Runtime guarantees for every length of a tick, every lock that is  *)
(* long enough, and every hold that boundedDelay admits.                   *)
(*                                                                         *)
(* DeliveryInv is shown to be inductive conjunct by conjunct; the timing   *)
(* conjuncts use only how the durations compare, which the lemmas on Ticks *)
(* provide.                                                                *)
(***************************************************************************)
EXTENDS RuntimeInvariant, TLAPS

LEMMA DivBounds ==
  ASSUME NEW n \in Nat, NEW d \in Nat \ {0}
  PROVE  /\ n \div d \in Nat
         /\ (n \div d) * d <= n /\ n < (n \div d) * d + d
OBVIOUS

\* Rounding up keeps the order of durations, and of a positive one leaves something.
LEMMA TicksOrder ==
  ASSUME NEW a \in Nat, NEW b \in Nat, a <= b
  PROVE  /\ Ticks(a) \in Nat /\ Ticks(b) \in Nat
         /\ Ticks(a) <= Ticks(b)
         /\ a > 0 => Ticks(a) > 0
<1>1. TickSeconds \in Nat \ {0}
  BY RuntimeAssumption
<1>2. PICK x \in Nat, y \in Nat : x = a + TickSeconds - 1 /\ y = b + TickSeconds - 1 /\ x <= y
  BY <1>1
<1>3. Ticks(a) = x \div TickSeconds /\ Ticks(b) = y \div TickSeconds
  BY <1>2 DEF Ticks
<1>4. PICK p \in Nat, q \in Nat : p = x \div TickSeconds /\ q = y \div TickSeconds
  BY <1>1, DivBounds
<1>5. p * TickSeconds <= x /\ y < q * TickSeconds + TickSeconds
  BY <1>1, <1>4, DivBounds
<1>6. p <= q
  <2> SUFFICES ASSUME q + 1 <= p
               PROVE  FALSE
    OBVIOUS
  <2>1. (q + 1) * TickSeconds <= p * TickSeconds
    BY <1>1
  <2>2. (q + 1) * TickSeconds = q * TickSeconds + TickSeconds
    BY <1>1
  <2> QED
    BY <1>1, <1>2, <1>5, <2>1, <2>2
<1>7. a > 0 => p > 0
  <2> SUFFICES ASSUME a > 0, p = 0
               PROVE  FALSE
    OBVIOUS
  <2>1. x < p * TickSeconds + TickSeconds
    BY <1>1, <1>4, DivBounds
  <2> QED
    BY <1>1, <1>2, <2>1
<1> QED
  BY <1>3, <1>4, <1>6, <1>7

\* The durations of the code, as far as the proofs compare them.
LEMMA Durations ==
  /\ receiveTimeout \in 0 .. Ticks(300) /\ receivePause \in 0 .. Ticks(300)
  /\ mailTimeout \in 0 .. Ticks(300) /\ settleTimeout \in 0 .. Ticks(300)
  /\ renewTimeout \in Nat /\ renewInterval \in Nat \ {0} /\ renewBudget \in Nat \ {0}
  /\ Ticks(300) \in Nat /\ Ticks(LockSeconds) \in Nat
  /\ mailTimeout \in Nat /\ settleTimeout \in Nat
  /\ \A retryAfter \in RetryAfters : Ticks(retryAfter) \in 0 .. Ticks(300)
<1>1. /\ Ticks(5) \in Nat /\ Ticks(300) \in Nat /\ Ticks(5) <= Ticks(300)
      /\ Ticks(2) \in Nat /\ Ticks(2) <= Ticks(300)
      /\ Ticks(30) \in Nat /\ Ticks(30) <= Ticks(300) /\ Ticks(30) > 0
      /\ Ticks(15) \in Nat /\ Ticks(15) <= Ticks(300)
      /\ Ticks(10) \in Nat /\ Ticks(900) \in Nat /\ Ticks(900) > 0
      /\ Ticks(LockSeconds) \in Nat
  BY TicksOrder, RuntimeAssumption
<1>2. ASSUME NEW retryAfter \in RetryAfters
      PROVE  Ticks(retryAfter) \in Nat /\ Ticks(retryAfter) <= Ticks(300)
  BY TicksOrder, RuntimeAssumption
<1>3. renewBudget = Ticks(900)
  BY DEF renewBudget
<1> QED
  BY <1>1, <1>2, <1>3
     DEF receiveTimeout, receivePause, mailTimeout, settleTimeout, renewTimeout, renewInterval

(***************************************************************************)
(* With ticks of at most 30 seconds rounding does not use up the margin:   *)
(* ten calls to the provider and the longest hold stay within the budget.  *)
(***************************************************************************)
LEMMA BudgetMargin ==
  ASSUME TickSeconds <= 30
  PROVE  maxPublicationBatchSize * mailTimeout + Ticks(300) < renewBudget
<1>1. TickSeconds \in 1 .. 30
  BY RuntimeAssumption
<1>2. ASSUME NEW t \in 1 .. 30
      PROVE  10 * ((30 + t - 1) \div t) + (300 + t - 1) \div t < (900 + t - 1) \div t
  <2>1. CASE t \in 1 .. 10
    BY <2>1
  <2>2. CASE t \in 11 .. 20
    BY <2>2
  <2>3. CASE t \in 21 .. 30
    BY <2>3
  <2> QED
    BY <2>1, <2>2, <2>3
<1> QED
  BY <1>1, <1>2 DEF maxPublicationBatchSize, mailTimeout, renewBudget, Ticks

------------------------------------------------------------------------------
(***************************************************************************)
(* What each action makes of the three records, field by field.            *)
(***************************************************************************)
MainIs(m, pc, timer, mails, disposition, cut, slow) ==
  /\ m \in MainState
  /\ m.pc = pc /\ m.timer = timer /\ m.mails = mails
  /\ m.disposition = disposition /\ m.cut = cut /\ m.slow = slow

RenewerIs(r, pc, timer, ticker, fired, budget) ==
  /\ r \in RenewerState
  /\ r.pc = pc /\ r.timer = timer /\ r.ticker = ticker
  /\ r.fired = fired /\ r.budget = budget

BrokerIs(b, state, left) == b \in BrokerState /\ b.state = state /\ b.left = left

LEMMA Members ==
  /\ 0 \in MainTimers /\ receiveTimeout \in MainTimers /\ receivePause \in MainTimers
  /\ mailTimeout \in MainTimers /\ settleTimeout \in MainTimers
  /\ \A retryAfter \in RetryAfters : Ticks(retryAfter) \in MainTimers
  /\ 0 \in MailCounts
  /\ 0 \in RenewTimers /\ renewTimeout \in RenewTimers
  /\ renewInterval \in Tickers /\ renewBudget \in Budgets
  /\ 0 \in LockTimes /\ Ticks(LockSeconds) \in LockTimes
BY Durations DEF MainPcs, MainTimers, MailCounts, RenewTimers, Tickers, Budgets, LockTimes,
                 maxPublicationBatchSize

LEMMA LoopIs ==
  ASSUME NEW pc \in MainPcs, NEW timer \in MainTimers
  PROVE  MainIs(Loop(pc, timer), pc, timer, 0, "Complete", FALSE, FALSE)
<1>1. 0 \in MailCounts /\ "Complete" \in Verdicts
  BY Members DEF Verdicts, Dispositions
<1> QED
  BY <1>1 DEF MainIs, Loop, MainState

LEMMA EndedIs ==
  RenewerIs(Ended, "ended", 0, renewInterval, FALSE, renewBudget)
<1>1. "ended" \in RenewerPcs /\ 0 \in RenewTimers /\ renewInterval \in Tickers
      /\ renewBudget \in Budgets
  BY Members DEF RenewerPcs
<1> QED
  BY <1>1 DEF RenewerIs, Ended, RenewerState

LEMMA SelectDoes ==
  ASSUME Select
  PROVE  \/ /\ shutdown \/ health = "failed"
            /\ MainIs(main', "returned", 0, 0, "Complete", FALSE, FALSE)
         \/ /\ ~shutdown /\ health = "serving"
            /\ MainIs(main', "receive", receiveTimeout, 0, "Complete", FALSE, FALSE)
<1>1. {"returned", "receive"} \subseteq MainPcs /\ 0 \in MainTimers /\ receiveTimeout \in MainTimers
  BY Members DEF MainPcs
<1> QED
  BY <1>1, LoopIs DEF Select

LEMMA ReceiveFailsDoes ==
  ASSUME ReceiveFails
  PROVE  \/ MainIs(main', "select", 0, 0, "Complete", FALSE, FALSE)
         \/ MainIs(main', "pause", receivePause, 0, "Complete", FALSE, FALSE)
<1>1. {"select", "pause"} \subseteq MainPcs /\ 0 \in MainTimers /\ receivePause \in MainTimers
  BY Members DEF MainPcs
<1> QED
  BY <1>1, LoopIs DEF ReceiveFails

LEMMA PauseDoes ==
  ASSUME Pause
  PROVE  \E pc \in {"returned", "select"} : MainIs(main', pc, 0, 0, "Complete", FALSE, FALSE)
<1>1. {"select", "returned"} \subseteq MainPcs /\ 0 \in MainTimers
  BY Members DEF MainPcs
<1> QED
  BY <1>1, LoopIs DEF Pause

LEMMA DeliverDoes ==
  ASSUME Deliver
  PROVE  /\ MainIs(main', "storage", 0, 0, "Complete", FALSE, FALSE)
         /\ RenewerIs(renewer', "select", 0, renewInterval, FALSE, renewBudget)
         /\ BrokerIs(broker', "locked", Ticks(LockSeconds))
<1>1. "storage" \in MainPcs /\ 0 \in MainTimers
  BY Members DEF MainPcs
<1>2. MainIs(main', "storage", 0, 0, "Complete", FALSE, FALSE)
  BY <1>1, LoopIs DEF Deliver
<1>3. /\ "select" \in RenewerPcs /\ Ended \in RenewerState
      /\ renewer' = [Ended EXCEPT !.pc = "select"]
      /\ Ended.timer = 0 /\ Ended.ticker = renewInterval /\ Ended.fired = FALSE
      /\ Ended.budget = renewBudget
  BY EndedIs DEF Deliver, RenewerPcs, RenewerIs
<1>4. RenewerIs(renewer', "select", 0, renewInterval, FALSE, renewBudget)
  BY <1>3, Zenon DEF RenewerIs, RenewerState
<1>5. BrokerIs(broker', "locked", Ticks(LockSeconds))
  BY Members DEF Deliver, BrokerIs, BrokerState, BrokerStates
<1> QED
  BY <1>2, <1>4, <1>5

LEMMA VerdictDoes ==
  ASSUME main \in MainState, NEW disposition \in Dispositions, NEW retryAfter \in RetryAfters,
         NEW cut \in BOOLEAN, AfterProcess(disposition, retryAfter, cut)
  PROVE  \/ MainIs(main', "hold", Ticks(retryAfter), 0, disposition, cut, main.slow)
         \/ MainIs(main', "cancel", 0, 0, disposition, cut, main.slow)
<1>1. /\ {"hold", "cancel"} \subseteq MainPcs /\ disposition \in Verdicts
      /\ Ticks(retryAfter) \in MainTimers /\ 0 \in MainTimers /\ 0 \in MailCounts
  BY Members DEF MainPcs, Verdicts
<1>2. CASE disposition = "Abandon"
  <2>1. main' = [main EXCEPT !.pc = "hold", !.timer = Ticks(retryAfter), !.mails = 0,
                             !.disposition = disposition, !.cut = cut]
    BY <1>2 DEF AfterProcess
  <2> QED
    BY <1>1, <2>1, Zenon DEF MainIs, MainState
<1>3. CASE disposition # "Abandon"
  <2>1. main' = [main EXCEPT !.pc = "cancel", !.timer = 0, !.mails = 0,
                             !.disposition = disposition, !.cut = cut]
    BY <1>3 DEF AfterProcess
  <2> QED
    BY <1>1, <2>1, Zenon DEF MainIs, MainState
<1> QED
  BY <1>2, <1>3

LEMMA StorageReturnsDoes ==
  ASSUME main \in MainState, StorageReturns
  PROVE  MainIs(main', "mail", mailTimeout, main.mails + 1, main.disposition, main.cut, main.slow)
<1>1. /\ main' = [main EXCEPT !.pc = "mail", !.timer = mailTimeout, !.mails = main.mails + 1]
      /\ "mail" \in MainPcs /\ mailTimeout \in MainTimers
  BY Members DEF StorageReturns, MainPcs
<1>2. main.mails + 1 \in MailCounts
  BY DEF StorageReturns, MainState, MailCounts, maxPublicationBatchSize
<1> QED
  BY <1>1, <1>2, Zenon DEF MainIs, MainState

LEMMA MailReturnsDoes ==
  ASSUME main \in MainState, MailReturns
  PROVE  MainIs(main', "storage", 0, main.mails, main.disposition, main.cut, main.slow)
<1>1. /\ main' = [main EXCEPT !.pc = "storage", !.timer = 0]
      /\ "storage" \in MainPcs /\ 0 \in MainTimers
  BY Members DEF MailReturns, MainPcs
<1> QED
  BY <1>1, Zenon DEF MainIs, MainState

LEMMA HoldDoes ==
  ASSUME main \in MainState, Hold
  PROVE  \/ Done /\ MainIs(main', "cancel", 0, main.mails, "Canceled", TRUE, main.slow)
         \/ /\ main.timer = 0
            /\ MainIs(main', "cancel", main.timer, main.mails, main.disposition, main.cut,
                      main.slow)
<1>1. "cancel" \in MainPcs /\ 0 \in MainTimers /\ "Canceled" \in Verdicts
  BY Members DEF MainPcs, Verdicts
<1>2. CASE /\ Done
           /\ main' = [main EXCEPT !.pc = "cancel", !.timer = 0, !.disposition = "Canceled",
                                   !.cut = TRUE]
  BY <1>1, <1>2, Zenon DEF MainIs, MainState
<1>3. CASE main.timer = 0 /\ main' = [main EXCEPT !.pc = "cancel"]
  BY <1>1, <1>3, Zenon DEF MainIs, MainState
<1> QED
  BY <1>2, <1>3 DEF Hold

LEMMA CancelDoes ==
  ASSUME main \in MainState, Cancel
  PROVE  MainIs(main', "join", main.timer, main.mails, main.disposition, main.cut,
                main.slow)
<1>1. /\ main' = [main EXCEPT !.pc = "join"]
      /\ "join" \in MainPcs
  BY Members DEF Cancel, MainPcs
<1> QED
  BY <1>1, Zenon DEF MainIs, MainState

LEMMA UnsettledDoes ==
  ASSUME ReturnUnsettled
  PROVE  /\ MainIs(main', "select", 0, 0, "Complete", FALSE, FALSE)
         /\ BrokerIs(broker', "free", 0)
<1>1. "select" \in MainPcs /\ 0 \in MainTimers
  BY Members DEF MainPcs
<1>2. MainIs(main', "select", 0, 0, "Complete", FALSE, FALSE)
  BY <1>1, LoopIs DEF ReturnUnsettled
<1>3. BrokerIs(broker', "free", 0)
  BY Members DEF ReturnUnsettled, BrokerIs, BrokerState, BrokerStates
<1> QED
  BY <1>2, <1>3

LEMMA JoinDoes ==
  ASSUME main \in MainState, Join
  PROVE  \/ /\ MainIs(main', "select", 0, 0, "Complete", FALSE, FALSE)
            /\ BrokerIs(broker', "free", 0)
         \/ /\ renewDone # "error" /\ main.disposition # "Canceled"
            /\ MainIs(main', "settle", settleTimeout, main.mails, main.disposition, main.cut,
                      main.slow)
            /\ broker' = broker
<1>1. CASE renewDone = "error" \/ main.disposition = "Canceled"
  BY <1>1, UnsettledDoes DEF Join
<1>2. CASE ~(renewDone = "error" \/ main.disposition = "Canceled")
  <2>1. /\ main' = [main EXCEPT !.pc = "settle", !.timer = settleTimeout]
        /\ "settle" \in MainPcs /\ settleTimeout \in MainTimers /\ broker' = broker
    BY <1>2, Members DEF Join, MainPcs
  <2>2. MainIs(main', "settle", settleTimeout, main.mails, main.disposition, main.cut, main.slow)
    BY <2>1, Zenon DEF MainIs, MainState
  <2> QED
    BY <1>2, <2>1, <2>2
<1> QED
  BY <1>1, <1>2

LEMMA SettleDoes ==
  ASSUME Settle
  PROVE  /\ MainIs(main', "select", 0, 0, "Complete", FALSE, FALSE)
         /\ \/ BrokerIs(broker', "free", 0)
            \/ SettleApplied /\ BrokerIs(broker', "settled", 0)
<1>1. "select" \in MainPcs /\ 0 \in MainTimers
  BY Members DEF MainPcs
<1>2. CASE /\ SettleApplied
           /\ broker' = [state |-> "settled", left |-> 0]
           /\ main' = Loop("select", 0)
  <2>1. BrokerIs(broker', "settled", 0)
    BY <1>2, Members DEF BrokerIs, BrokerState, BrokerStates
  <2> QED
    BY <1>1, <1>2, <2>1, LoopIs
<1> QED
  BY <1>2, UnsettledDoes DEF Settle

LEMMA BudgetExhaustedDoes ==
  ASSUME renewer \in RenewerState, BudgetExhausted
  PROVE  RenewerIs(renewer', "giveUp", renewer.timer, renewer.ticker, renewer.fired,
                   renewer.budget)
<1>1. /\ renewer' = [renewer EXCEPT !.pc = "giveUp"]
      /\ "giveUp" \in RenewerPcs
  BY Members DEF BudgetExhausted, RenewerPcs
<1> QED
  BY <1>1, Zenon DEF RenewerIs, RenewerState

LEMMA StartRenewalDoes ==
  ASSUME renewer \in RenewerState, StartRenewal
  PROVE  RenewerIs(renewer', "renew", renewTimeout, renewer.ticker, FALSE, renewer.budget)
<1>1. /\ renewer' = [renewer EXCEPT !.pc = "renew", !.timer = renewTimeout, !.fired = FALSE]
      /\ "renew" \in RenewerPcs /\ renewTimeout \in RenewTimers
  BY Members DEF StartRenewal, RenewerPcs
<1> QED
  BY <1>1, Zenon DEF RenewerIs, RenewerState

LEMMA GiveUpDoes ==
  ASSUME renewer \in RenewerState, GiveUp
  PROVE  RenewerIs(renewer', "report", renewer.timer, renewer.ticker, renewer.fired,
                   renewer.budget)
<1>1. /\ renewer' = [renewer EXCEPT !.pc = "report"]
      /\ "report" \in RenewerPcs
  BY Members DEF GiveUp, RenewerPcs
<1> QED
  BY <1>1, Zenon DEF RenewerIs, RenewerState

LEMMA RenewMessageLockDoes ==
  ASSUME renewer \in RenewerState, broker \in BrokerState, RenewMessageLock
  PROVE  \E pc \in {"select", "failed"} :
           /\ RenewerIs(renewer', pc, 0, renewer.ticker, renewer.fired, renewer.budget)
           /\ \/ /\ pc = "failed" /\ broker' = broker
              \/ /\ broker.state = "locked"
                 /\ BrokerIs(broker', "locked", Ticks(LockSeconds))
<1>1. PICK applied \in BOOLEAN, ok \in BOOLEAN :
        /\ applied => broker.state = "locked"
        /\ ok => applied
        /\ broker' = IF applied THEN [broker EXCEPT !.left = Ticks(LockSeconds)] ELSE broker
        /\ renewer' = [renewer EXCEPT !.pc = IF ok THEN "select" ELSE "failed", !.timer = 0]
  BY DEF RenewMessageLock
<1>2. "select" \in RenewerPcs /\ "failed" \in RenewerPcs /\ 0 \in RenewTimers
      /\ Ticks(LockSeconds) \in LockTimes
  BY Members DEF RenewerPcs
<1>3. applied => BrokerIs(broker', "locked", Ticks(LockSeconds))
  BY <1>1, <1>2 DEF BrokerIs, BrokerState
<1>4. CASE ok
  <2>1. renewer' = [renewer EXCEPT !.pc = "select", !.timer = 0]
    BY <1>1, <1>4
  <2>2. RenewerIs(renewer', "select", 0, renewer.ticker, renewer.fired, renewer.budget)
    BY <1>2, <2>1, Zenon DEF RenewerIs, RenewerState
  <2> QED
    BY <1>1, <1>3, <1>4, <2>2
<1>5. CASE ~ok
  <2>1. renewer' = [renewer EXCEPT !.pc = "failed", !.timer = 0]
    BY <1>1, <1>5
  <2>2. RenewerIs(renewer', "failed", 0, renewer.ticker, renewer.fired, renewer.budget)
    BY <1>2, <2>1, Zenon DEF RenewerIs, RenewerState
  <2>3. broker' = broker \/ applied
    BY <1>1
  <2> QED
    BY <1>1, <1>3, <2>2, <2>3
<1> QED
  BY <1>4, <1>5

LEMMA RenewalFailedDoes ==
  ASSUME renewer \in RenewerState, RenewalFailed
  PROVE  \/ /\ Done /\ renewDone' = "nil"
            /\ RenewerIs(renewer', "ended", 0, renewInterval, FALSE, renewBudget)
         \/ /\ ~Done /\ renewDone' = renewDone
            /\ RenewerIs(renewer', "giveUp", renewer.timer, renewer.ticker, renewer.fired,
                         renewer.budget)
<1>1. CASE Done
  BY <1>1, EndedIs DEF RenewalFailed
<1>2. CASE ~Done
  <2>1. /\ renewer' = [renewer EXCEPT !.pc = "giveUp"] /\ renewDone' = renewDone
        /\ "giveUp" \in RenewerPcs
    BY <1>2 DEF RenewalFailed, RenewerPcs
  <2>2. RenewerIs(renewer', "giveUp", renewer.timer, renewer.ticker, renewer.fired,
                  renewer.budget)
    BY <2>1, Zenon DEF RenewerIs, RenewerState
  <2> QED
    BY <1>2, <2>1, <2>2
<1> QED
  BY <1>1, <1>2

LEMMA TickMain ==
  ASSUME main \in MainState, main' = [main EXCEPT !.timer = Before(@), !.slow = @ \/ main.pc = "storage"]
  PROVE  MainIs(main', main.pc, Before(main.timer), main.mails, main.disposition, main.cut,
                main.slow \/ main.pc = "storage")
<1>1. Before(main.timer) \in MainTimers
  BY Durations DEF MainState, MainTimers, Before
<1> QED
  BY <1>1, Zenon DEF MainIs, MainState

LEMMA TickRenewer ==
  ASSUME renewer \in RenewerState, renewer.pc # "ended", renewer' = RenewerLater
  PROVE  RenewerIs(renewer', renewer.pc, Before(renewer.timer),
                   IF renewer.ticker = 1 THEN renewInterval ELSE renewer.ticker - 1,
                   renewer.fired \/ renewer.ticker = 1, Before(renewer.budget))
<1> DEFINE ticker == IF renewer.ticker = 1 THEN renewInterval ELSE renewer.ticker - 1
<1>1. /\ Before(renewer.timer) \in RenewTimers /\ Before(renewer.budget) \in Budgets
      /\ ticker \in Tickers
  BY Durations DEF RenewerState, RenewTimers, Budgets, Tickers, Before
<1>2. renewer' = [renewer EXCEPT !.timer = Before(renewer.timer),
                                 !.budget = Before(renewer.budget),
                                 !.fired = renewer.fired \/ renewer.ticker = 1,
                                 !.ticker = ticker]
  BY DEF RenewerLater
<1> HIDE DEF ticker
<1>3. RenewerIs(renewer', renewer.pc, Before(renewer.timer), ticker,
                renewer.fired \/ renewer.ticker = 1, Before(renewer.budget))
  BY <1>1, <1>2, Zenon DEF RenewerIs, RenewerState
<1> QED
  BY <1>3 DEF ticker

LEMMA TickBroker ==
  ASSUME broker \in BrokerState, broker' = BrokerLater,
         broker.state = "locked" => broker.left > 1
  PROVE  \/ broker.state # "locked" /\ broker' = broker
         \/ broker.state = "locked" /\ BrokerIs(broker', "locked", broker.left - 1)
<1>1. CASE broker.state # "locked"
  BY <1>1 DEF BrokerLater
<1>2. CASE broker.state = "locked"
  <2>1. broker' = [broker EXCEPT !.left = broker.left - 1]
    BY <1>2 DEF BrokerLater, BrokerState, LockTimes
  <2>2. broker.left - 1 \in LockTimes
    BY <1>2, Durations DEF BrokerState, LockTimes
  <2> QED
    BY <1>2, <2>1, <2>2 DEF BrokerIs, BrokerState
<1> QED
  BY <1>1, <1>2

------------------------------------------------------------------------------
(***************************************************************************)
(* The steps of the invariant.                                             *)
(***************************************************************************)
LEMMA DeliveryInit == Init => DeliveryInv
<1> SUFFICES ASSUME Init
             PROVE  DeliveryInv
  OBVIOUS
<1>1. /\ MainIs(main, "select", 0, 0, "Complete", FALSE, FALSE)
      /\ RenewerIs(renewer, "ended", 0, renewInterval, FALSE, renewBudget)
      /\ BrokerIs(broker, "free", 0)
  <2>1. "select" \in MainPcs
    BY DEF MainPcs
  <2> QED
    BY <2>1, LoopIs, EndedIs, Members DEF Init, BrokerIs, BrokerState, BrokerStates
<1>2. RuntimeTypes
  BY <1>1 DEF Init, RuntimeTypes, MainIs, RenewerIs, BrokerIs
<1>3. Handover /\ CutFollowed
  BY <1>1 DEF Init, MainIs, RenewerIs, Handover, CutFollowed, Renewing, Working
<1>4. LockLasts /\ BudgetLasts
  BY <1>1 DEF MainIs, RenewerIs, BrokerIs, LockLasts, BudgetLasts, InDelivery, Working
<1> QED
  BY <1>2, <1>3, <1>4 DEF DeliveryInv

\* Between two deliveries nothing of the invariant speaks of the loop.
LEMMA LoopKeeps ==
  ASSUME DeliveryInv, Select \/ ReceiveFails \/ Pause
  PROVE  DeliveryInv'
<1>1. /\ main' \in MainState /\ main'.pc \in {"returned", "receive", "select", "pause"}
      /\ main.pc \in {"select", "receive", "pause"}
      /\ UNCHANGED <<shutdown, health, cancelled, renewer, renewDone, broker>>
  BY SelectDoes, ReceiveFailsDoes, PauseDoes DEF MainIs, Select, ReceiveFails, Pause
<1>2. renewer.pc = "ended" /\ broker.state # "locked"
  BY <1>1 DEF DeliveryInv, Handover, LockLasts, InDelivery, Renewing, Working
<1>3. RuntimeTypes'
  BY <1>1 DEF DeliveryInv, RuntimeTypes
<1>4. Handover' /\ CutFollowed'
  BY <1>1, <1>2 DEF Handover, CutFollowed, Renewing, Working
<1>5. LockLasts' /\ BudgetLasts'
  BY <1>1, <1>2 DEF LockLasts, BudgetLasts, InDelivery, Working
<1> QED
  BY <1>3, <1>4, <1>5 DEF DeliveryInv

LEMMA DeliverKeeps ==
  ASSUME DeliveryInv, Deliver
  PROVE  DeliveryInv'
<1>1. /\ MainIs(main', "storage", 0, 0, "Complete", FALSE, FALSE)
      /\ RenewerIs(renewer', "select", 0, renewInterval, FALSE, renewBudget)
      /\ BrokerIs(broker', "locked", Ticks(LockSeconds))
      /\ cancelled' = FALSE /\ renewDone' = "empty" /\ UNCHANGED <<shutdown, health>>
  BY DeliverDoes DEF Deliver
<1>2. RuntimeTypes'
  BY <1>1 DEF DeliveryInv, RuntimeTypes, MainIs, RenewerIs, BrokerIs
<1>3. Handover' /\ CutFollowed'
  BY <1>1 DEF MainIs, RenewerIs, Handover, CutFollowed, Renewing, Working
<1>4. LockLasts'
  BY <1>1, LockAssumption, Durations
     DEF MainIs, RenewerIs, BrokerIs, LockLasts, Needed, InDelivery, Working
<1>5. BudgetLasts'
  BY <1>1, Durations DEF MainIs, RenewerIs, BudgetLasts
<1> QED
  BY <1>2, <1>3, <1>4, <1>5 DEF DeliveryInv

\* The part of the provider calls in the budget.
LEMMA MailShare ==
  ASSUME NEW n \in MailCounts
  PROVE  /\ n \in Nat /\ n * mailTimeout \in Nat
         /\ maxPublicationBatchSize * mailTimeout \in Nat
         /\ n * mailTimeout <= maxPublicationBatchSize * mailTimeout
         /\ (n + 1) * mailTimeout = n * mailTimeout + mailTimeout
<1>1. mailTimeout \in Nat
  BY Durations
<1>2. n \in 0 .. 10
  BY DEF MailCounts, maxPublicationBatchSize
<1> QED
  BY <1>1, <1>2 DEF maxPublicationBatchSize

\* A step of Process or of the hold: only main moves, and the delivery goes on.
OnlyMain == UNCHANGED <<shutdown, health, cancelled, renewer, renewDone, broker>>

LEMMA ProcessKeeps ==
  ASSUME DeliveryInv, OnlyMain, main' \in MainState,
         main.pc \in Working \cup {"hold"}, main'.pc \in Working \cup {"hold", "cancel"},
         main'.pc \in {"hold", "cancel"} /\ main'.cut => Done \/ (main.pc = "hold" /\ main.cut),
         main'.pc \in {"hold", "cancel"} /\ main'.disposition = "Canceled" => main'.cut
  PROVE  RuntimeTypes' /\ Handover' /\ CutFollowed' /\ LockLasts'
<1>1. RuntimeTypes'
  BY DEF DeliveryInv, RuntimeTypes, OnlyMain
<1>2. Handover'
  BY DEF DeliveryInv, Handover, Done, Renewing, Working, OnlyMain
<1>3. CutFollowed'
  BY DEF DeliveryInv, CutFollowed, RenewalError, Done, Working, OnlyMain
<1>4. LockLasts'
  BY DEF DeliveryInv, LockLasts, Needed, InDelivery, Working, OnlyMain
<1> QED
  BY <1>1, <1>2, <1>3, <1>4

LEMMA VerdictKeeps ==
  ASSUME DeliveryInv, Verdict
  PROVE  DeliveryInv'
<1>0. main \in MainState /\ main.pc \in Working /\ OnlyMain
  BY DEF DeliveryInv, RuntimeTypes, Verdict, OnlyMain
<1>1. PICK disposition \in Dispositions, retryAfter \in RetryAfters, cut \in BOOLEAN :
        /\ cut => Done /\ disposition # "Complete"
        /\ AfterProcess(disposition, retryAfter, cut)
  BY DEF Verdict
<1>2. \/ MainIs(main', "hold", Ticks(retryAfter), 0, disposition, cut, main.slow)
      \/ MainIs(main', "cancel", 0, 0, disposition, cut, main.slow)
  BY <1>0, <1>1, VerdictDoes
<1>3. disposition # "Canceled"
  BY DEF Dispositions
<1>4. RuntimeTypes' /\ Handover' /\ CutFollowed' /\ LockLasts'
  BY <1>0, <1>1, <1>2, <1>3, ProcessKeeps DEF MainIs
<1>5. BudgetLasts'
  <2> SUFFICES ASSUME renewer.pc # "ended", ~main.slow
               PROVE  BudgetLasts'
    BY <1>0, <1>2 DEF BudgetLasts, OnlyMain, MainIs
  <2>1. /\ main.mails \in MailCounts /\ main.timer \in Nat /\ renewer.budget \in Nat
        /\ renewBudget \in Nat
    BY <1>0, Durations
       DEF DeliveryInv, RuntimeTypes, MainState, MainTimers, RenewerState, Budgets
  <2>2. /\ main.mails * mailTimeout \in Nat /\ maxPublicationBatchSize * mailTimeout \in Nat
        /\ main.mails * mailTimeout <= maxPublicationBatchSize * mailTimeout
    BY <2>1, MailShare
  <2>3. renewer.budget + main.mails * mailTimeout >= renewBudget
    BY <1>0, <2>1, <2>2 DEF DeliveryInv, BudgetLasts, Working
  <2>4. Ticks(retryAfter) \in 0 .. Ticks(300) /\ Ticks(300) \in Nat
    BY Durations
  <2>5. renewer.budget + maxPublicationBatchSize * mailTimeout >= renewBudget
    BY <2>1, <2>2, <2>3
  <2>6. /\ renewer.budget + maxPublicationBatchSize * mailTimeout + Ticks(300)
             >= renewBudget + Ticks(retryAfter)
        /\ renewer.budget + maxPublicationBatchSize * mailTimeout + Ticks(300) >= renewBudget
    BY <2>1, <2>2, <2>4, <2>5
  <2> QED
    BY <1>0, <1>2, <2>6 DEF BudgetLasts, OnlyMain, MainIs
<1> QED
  BY <1>4, <1>5 DEF DeliveryInv

LEMMA StorageReturnsKeeps ==
  ASSUME DeliveryInv, StorageReturns
  PROVE  DeliveryInv'
<1>0. main \in MainState /\ main.pc = "storage" /\ OnlyMain
  BY DEF DeliveryInv, RuntimeTypes, StorageReturns, OnlyMain
<1>1. MainIs(main', "mail", mailTimeout, main.mails + 1, main.disposition, main.cut, main.slow)
  BY <1>0, StorageReturnsDoes
<1>2. RuntimeTypes' /\ Handover' /\ CutFollowed' /\ LockLasts'
  BY <1>0, <1>1, ProcessKeeps DEF MainIs, Working
<1>3. BudgetLasts'
  <2> SUFFICES ASSUME renewer.pc # "ended", ~main.slow
               PROVE  BudgetLasts'
    BY <1>0, <1>1 DEF BudgetLasts, OnlyMain, MainIs
  <2>1. /\ main.mails \in MailCounts /\ main.mails \in Nat /\ renewer.budget \in Nat
        /\ renewBudget \in Nat /\ mailTimeout \in Nat
    BY <1>0, Durations DEF DeliveryInv, RuntimeTypes, MainState, MailCounts,
                           RenewerState, Budgets, maxPublicationBatchSize
  <2>2. /\ main.mails * mailTimeout \in Nat
        /\ (main.mails + 1) * mailTimeout = main.mails * mailTimeout + mailTimeout
    BY <2>1, MailShare
  <2>3. renewer.budget + main.mails * mailTimeout >= renewBudget
    BY <1>0 DEF DeliveryInv, BudgetLasts
  <2>4. renewer.budget + (main.mails + 1) * mailTimeout >= renewBudget + mailTimeout
    BY <2>1, <2>2, <2>3
  <2> QED
    BY <1>0, <1>1, <2>1, <2>4 DEF BudgetLasts, OnlyMain, MainIs
<1> QED
  BY <1>2, <1>3 DEF DeliveryInv

LEMMA MailReturnsKeeps ==
  ASSUME DeliveryInv, MailReturns
  PROVE  DeliveryInv'
<1>0. main \in MainState /\ main.pc = "mail" /\ OnlyMain
  BY DEF DeliveryInv, RuntimeTypes, MailReturns, OnlyMain
<1>1. MainIs(main', "storage", 0, main.mails, main.disposition, main.cut, main.slow)
  BY <1>0, MailReturnsDoes
<1>2. RuntimeTypes' /\ Handover' /\ CutFollowed' /\ LockLasts'
  BY <1>0, <1>1, ProcessKeeps DEF MainIs, Working
<1>3. BudgetLasts'
  <2>1. /\ main.timer \in Nat /\ renewer.budget \in Nat /\ renewBudget \in Nat
        /\ main.mails * mailTimeout \in Nat
    BY <1>0, Durations, MailShare
       DEF DeliveryInv, RuntimeTypes, MainState, MainTimers, RenewerState, Budgets
  <2> QED
    BY <1>0, <1>1, <2>1 DEF DeliveryInv, BudgetLasts, OnlyMain, MainIs
<1> QED
  BY <1>2, <1>3 DEF DeliveryInv

LEMMA HoldKeeps ==
  ASSUME DeliveryInv, Hold
  PROVE  DeliveryInv'
<1>0. main \in MainState /\ main.pc = "hold" /\ OnlyMain
  BY DEF DeliveryInv, RuntimeTypes, Hold, OnlyMain
<1>1. \/ Done /\ MainIs(main', "cancel", 0, main.mails, "Canceled", TRUE, main.slow)
      \/ /\ main.timer = 0
         /\ MainIs(main', "cancel", main.timer, main.mails, main.disposition, main.cut, main.slow)
  BY <1>0, HoldDoes
<1>2. RuntimeTypes' /\ Handover' /\ CutFollowed' /\ LockLasts'
  <2>1. main.disposition = "Canceled" => main.cut
    BY <1>0 DEF DeliveryInv, CutFollowed
  <2> QED
    BY <1>0, <1>1, <2>1, ProcessKeeps DEF MainIs, Working
<1>3. BudgetLasts'
  <2>1. /\ main.timer \in Nat /\ renewer.budget \in Nat /\ renewBudget \in Nat
        /\ maxPublicationBatchSize * mailTimeout \in Nat /\ Ticks(300) \in Nat
        /\ main.mails \in MailCounts
    BY <1>0, Durations, MailShare
       DEF DeliveryInv, RuntimeTypes, MainState, MainTimers, RenewerState, Budgets
  <2> QED
    BY <1>0, <1>1, <2>1 DEF DeliveryInv, BudgetLasts, OnlyMain, MainIs
<1> QED
  BY <1>2, <1>3 DEF DeliveryInv

LEMMA CancelKeeps ==
  ASSUME DeliveryInv, Cancel
  PROVE  DeliveryInv'
<1>0. /\ main \in MainState /\ main.pc = "cancel" /\ cancelled' = TRUE
      /\ UNCHANGED <<shutdown, health, renewer, renewDone, broker>>
  BY DEF DeliveryInv, RuntimeTypes, Cancel
<1>1. MainIs(main', "join", main.timer, main.mails, main.disposition, main.cut, main.slow)
  BY <1>0, CancelDoes
<1>2. RuntimeTypes'
  BY <1>0, <1>1 DEF DeliveryInv, RuntimeTypes, MainIs
<1>3. Handover'
  BY <1>0, <1>1 DEF DeliveryInv, Handover, Done, Renewing, Working, MainIs
<1>4. CutFollowed'
  BY <1>0, <1>1 DEF DeliveryInv, CutFollowed, RenewalError, Working, MainIs
<1>5. LockLasts'
  BY <1>0, <1>1 DEF DeliveryInv, LockLasts, Needed, InDelivery, Working, MainIs
<1>6. BudgetLasts'
  BY <1>0, <1>1 DEF DeliveryInv, BudgetLasts, MainIs
<1> QED
  BY <1>2, <1>3, <1>4, <1>5, <1>6 DEF DeliveryInv

\* The renewer has ended when its report is taken, and the lock outlasts the settlement.
LEMMA JoinKeeps ==
  ASSUME DeliveryInv, Join
  PROVE  DeliveryInv'
<1>0. /\ main \in MainState /\ main.pc = "join" /\ renewDone' = "empty" /\ cancelled
      /\ renewer.pc = "ended" /\ renewDone # "empty"
      /\ UNCHANGED <<shutdown, health, cancelled, renewer>>
  BY DEF DeliveryInv, RuntimeTypes, Handover, Join
<1>1. \/ /\ MainIs(main', "select", 0, 0, "Complete", FALSE, FALSE)
         /\ BrokerIs(broker', "free", 0)
      \/ /\ renewDone # "error" /\ main.disposition # "Canceled"
         /\ MainIs(main', "settle", settleTimeout, main.mails, main.disposition, main.cut,
                   main.slow)
         /\ broker' = broker
  BY <1>0, JoinDoes
<1>2. RuntimeTypes'
  BY <1>0, <1>1 DEF DeliveryInv, RuntimeTypes, MainIs, BrokerIs
<1>3. Handover'
  BY <1>0, <1>1, Durations DEF Handover, Renewing, Working, MainIs
<1>4. CutFollowed'
  BY <1>0, <1>1 DEF DeliveryInv, CutFollowed, RenewalError, Working, MainIs
<1>5. LockLasts'
  BY <1>0, <1>1 DEF DeliveryInv, LockLasts, Needed, InDelivery, Working, MainIs, BrokerIs
<1>6. BudgetLasts'
  BY <1>0 DEF BudgetLasts
<1> QED
  BY <1>2, <1>3, <1>4, <1>5, <1>6 DEF DeliveryInv

LEMMA SettleKeeps ==
  ASSUME DeliveryInv, Settle
  PROVE  DeliveryInv'
<1>0. /\ main.pc = "settle" /\ renewer.pc = "ended"
      /\ UNCHANGED <<shutdown, health, cancelled, renewer, renewDone>>
  BY DEF DeliveryInv, Handover, Settle, Renewing, Working
<1>1. /\ MainIs(main', "select", 0, 0, "Complete", FALSE, FALSE)
      /\ BrokerIs(broker', "free", 0) \/ BrokerIs(broker', "settled", 0)
  BY SettleDoes
<1>2. RuntimeTypes'
  BY <1>0, <1>1 DEF DeliveryInv, RuntimeTypes, MainIs, BrokerIs
<1>3. Handover' /\ CutFollowed'
  BY <1>0, <1>1 DEF Handover, CutFollowed, Renewing, Working, MainIs
<1>4. LockLasts'
  BY <1>1 DEF LockLasts, InDelivery, Working, MainIs, BrokerIs
<1>5. BudgetLasts'
  BY <1>0 DEF BudgetLasts
<1> QED
  BY <1>2, <1>3, <1>4, <1>5 DEF DeliveryInv

------------------------------------------------------------------------------
\* While the renewer runs the lock lasts for a settlement at least.
LEMMA NeededLeast ==
  ASSUME RuntimeTypes, main.pc # "settle"
  PROVE  /\ Needed \in Nat /\ Needed >= settleTimeout
         /\ settleTimeout \in Nat /\ broker.left \in Nat
<1>1. /\ renewer.ticker \in Nat /\ renewer.timer \in Nat
      /\ settleTimeout \in Nat /\ renewTimeout \in Nat /\ broker.left \in Nat
  BY Durations DEF RuntimeTypes, RenewerState, Tickers, RenewTimers, BrokerState, LockTimes
<1>2. CASE renewer.pc = "select"
  BY <1>1, <1>2 DEF Needed
<1>3. CASE renewer.pc = "renew"
  BY <1>1, <1>3 DEF Needed
<1>4. CASE renewer.pc \notin {"select", "renew"}
  BY <1>1, <1>4 DEF Needed
<1> QED
  BY <1>1, <1>2, <1>3, <1>4

(***************************************************************************)
(* The renewer ends: it has reported, and only a cancelled context, or its *)
(* own error, let it end.                                                  *)
(***************************************************************************)
LEMMA RenewerEnds ==
  ASSUME DeliveryInv, RenewerStops \/ (RenewalFailed /\ Done) \/ Report
  PROVE  DeliveryInv'
<1>0. /\ renewer \in RenewerState /\ renewer.pc # "ended"
      /\ main.pc \in Renewing
      /\ UNCHANGED <<shutdown, health, main, cancelled, broker>>
      /\ RenewerIs(renewer', "ended", 0, renewInterval, FALSE, renewBudget)
  BY EndedIs DEF DeliveryInv, RuntimeTypes, Handover, RenewerStops, RenewalFailed, Report
<1>1. /\ renewDone' \in {"nil", "error"}
      /\ renewer.pc = "report" => renewDone' = "error"
      /\ renewDone = "empty"
  BY <1>0 DEF DeliveryInv, Handover, RenewerStops, RenewalFailed, Report
<1>2. Done
  BY <1>0 DEF DeliveryInv, Handover, Done, RenewerStops, Report
<1>3. RuntimeTypes'
  BY <1>0, <1>1 DEF DeliveryInv, RuntimeTypes, RenewerIs
<1>4. Handover'
  BY <1>0, <1>1, <1>2 DEF DeliveryInv, Handover, Done, RenewerIs
<1>5. CutFollowed'
  BY <1>0, <1>1 DEF DeliveryInv, CutFollowed, RenewalError, RenewerIs
<1>6. LockLasts'
  <2>1. main.pc # "settle"
    BY <1>0 DEF Renewing, Working
  <2>2. Needed' = settleTimeout
    BY <1>0, <2>1 DEF Needed, RenewerIs
  <2>3. broker.state = "locked" => broker.left > settleTimeout
    BY <2>1, NeededLeast DEF DeliveryInv, LockLasts
  <2> QED
    BY <1>0, <2>2, <2>3 DEF DeliveryInv, LockLasts, InDelivery
<1>7. BudgetLasts'
  BY <1>0 DEF BudgetLasts, RenewerIs
<1> QED
  BY <1>3, <1>4, <1>5, <1>6, <1>7 DEF DeliveryInv

\* A step of the renewer that goes on: its budget stays and nobody else moves.
RenewerGoesOn ==
  /\ UNCHANGED <<shutdown, health, main, renewDone>>
  /\ renewer' \in RenewerState /\ renewer.pc # "ended" /\ renewer'.pc # "ended"
  /\ renewer'.budget = renewer.budget

LEMMA GoesOnKeeps ==
  ASSUME DeliveryInv, RenewerGoesOn, broker' \in BrokerState, LockLasts',
         cancelled' \in BOOLEAN,
         cancelled' = cancelled \/ (cancelled' /\ renewer'.pc = "report"),
         renewer'.pc = "report" => cancelled',
         renewer.pc = "report" => renewer'.pc = "report"
  PROVE  DeliveryInv'
<1>1. RuntimeTypes'
  BY DEF DeliveryInv, RuntimeTypes, RenewerGoesOn
<1>2. Handover'
  BY DEF DeliveryInv, Handover, RenewerGoesOn
<1>3. CutFollowed'
  BY DEF DeliveryInv, CutFollowed, RenewalError, RenewerGoesOn
<1>4. BudgetLasts'
  BY DEF DeliveryInv, BudgetLasts, RenewerGoesOn
<1> QED
  BY <1>1, <1>2, <1>3, <1>4 DEF DeliveryInv

\* The renewer is past its calls: the lock still lasts for the settlement.
LEMMA PastCallsKeep ==
  ASSUME DeliveryInv, RenewerGoesOn, broker' = broker,
         renewer'.pc \in {"giveUp", "report"}, renewer.pc # "report",
         \/ cancelled' = cancelled /\ renewer'.pc = "giveUp"
         \/ cancelled' = TRUE /\ renewer'.pc = "report"
  PROVE  DeliveryInv'
<1>1. main.pc # "settle" /\ main' = main
  BY DEF DeliveryInv, Handover, RenewerGoesOn, Renewing, Working
<1>2. Needed' = settleTimeout
  BY <1>1 DEF Needed
<1>3. broker.state = "locked" => broker.left > settleTimeout
  BY <1>1, NeededLeast DEF DeliveryInv, LockLasts
<1>4. LockLasts'
  BY <1>1, <1>2, <1>3 DEF DeliveryInv, LockLasts, InDelivery
<1>5. broker' \in BrokerState /\ cancelled' \in BOOLEAN
  BY DEF DeliveryInv, RuntimeTypes
<1> QED
  BY <1>4, <1>5, GoesOnKeeps

LEMMA RenewerKeeps ==
  ASSUME DeliveryInv, Renewer
  PROVE  DeliveryInv'
<1>0. /\ renewer \in RenewerState /\ broker \in BrokerState /\ cancelled \in BOOLEAN
      /\ renewer.ticker \in Tickers /\ renewer.fired \in BOOLEAN
  BY DEF DeliveryInv, RuntimeTypes, RenewerState
<1>1. CASE RenewerStops \/ (RenewalFailed /\ Done) \/ Report
  BY <1>1, RenewerEnds
<1>2. CASE BudgetExhausted
  <2>1. RenewerIs(renewer', "giveUp", renewer.timer, renewer.ticker, renewer.fired,
                  renewer.budget)
    BY <1>0, <1>2, BudgetExhaustedDoes
  <2> QED
    BY <1>2, <2>1, PastCallsKeep DEF BudgetExhausted, RenewerGoesOn, RenewerIs
<1>3. CASE StartRenewal
  <2>1. RenewerIs(renewer', "renew", renewTimeout, renewer.ticker, FALSE, renewer.budget)
    BY <1>0, <1>3, StartRenewalDoes
  <2>2. Needed = 0 + renewTimeout + settleTimeout /\ Needed' = renewTimeout + settleTimeout
    BY <1>3, <2>1 DEF StartRenewal, Needed, RenewerIs
  <2>3. Needed' = Needed
    BY <2>2, Durations
  <2>4. LockLasts'
    BY <1>3, <2>3 DEF DeliveryInv, LockLasts, InDelivery, StartRenewal
  <2> QED
    BY <1>0, <1>3, <2>1, <2>4, GoesOnKeeps DEF StartRenewal, RenewerGoesOn, RenewerIs
<1>4. CASE RenewMessageLock
  <2>1. PICK pc \in {"select", "failed"} :
          /\ RenewerIs(renewer', pc, 0, renewer.ticker, renewer.fired, renewer.budget)
          /\ \/ /\ pc = "failed" /\ broker' = broker
             \/ /\ broker.state = "locked"
                /\ BrokerIs(broker', "locked", Ticks(LockSeconds))
    BY <1>0, <1>4, RenewMessageLockDoes
  <2>2. /\ renewer.pc = "renew" /\ main' = main /\ main.pc # "settle"
        /\ UNCHANGED <<shutdown, health, main, cancelled, renewDone>>
    BY <1>4 DEF RenewMessageLock, DeliveryInv, Handover, Renewing, Working
  <2>3. /\ pc = "failed" => Needed' = settleTimeout
        /\ pc = "select" =>
             Needed' = (IF renewer.fired THEN 0 ELSE renewer.ticker) + renewTimeout + settleTimeout
    BY <2>1, <2>2 DEF Needed, RenewerIs
  <2>4. /\ Ticks(LockSeconds) > settleTimeout
        /\ Ticks(LockSeconds) >
             (IF renewer.fired THEN 0 ELSE renewer.ticker) + renewTimeout + settleTimeout
    BY <1>0, LockAssumption, Durations DEF Tickers
  <2>5. broker.state = "locked" => broker.left > settleTimeout
    BY <2>2, NeededLeast DEF DeliveryInv, LockLasts
  <2>6. LockLasts'
    BY <2>1, <2>2, <2>3, <2>4, <2>5 DEF DeliveryInv, LockLasts, InDelivery, BrokerIs
  <2> QED
    BY <1>0, <2>1, <2>2, <2>6, GoesOnKeeps DEF RenewerGoesOn, RenewerIs, BrokerIs
<1>5. CASE RenewalFailed /\ ~Done
  <2>1. /\ renewDone' = renewDone
        /\ RenewerIs(renewer', "giveUp", renewer.timer, renewer.ticker, renewer.fired,
                     renewer.budget)
    BY <1>0, <1>5, RenewalFailedDoes
  <2> QED
    BY <1>5, <2>1, PastCallsKeep DEF RenewalFailed, RenewerGoesOn, RenewerIs
<1>6. CASE GiveUp
  <2>1. RenewerIs(renewer', "report", renewer.timer, renewer.ticker, renewer.fired,
                  renewer.budget)
    BY <1>0, <1>6, GiveUpDoes
  <2> QED
    BY <1>6, <2>1, PastCallsKeep DEF GiveUp, RenewerGoesOn, RenewerIs
<1> QED
  BY <1>1, <1>2, <1>3, <1>4, <1>5, <1>6 DEF Renewer

------------------------------------------------------------------------------
LEMMA ShutdownKeeps ==
  ASSUME DeliveryInv, Shutdown \/ HealthFails
  PROVE  DeliveryInv'
<1>0. /\ UNCHANGED <<main, cancelled, renewer, renewDone, broker>>
      /\ shutdown' = shutdown \/ shutdown' = TRUE
      /\ health' = health \/ health' = "failed"
  BY DEF Shutdown, HealthFails
<1>1. RuntimeTypes'
  BY <1>0 DEF DeliveryInv, RuntimeTypes
<1>2. Handover'
  BY <1>0 DEF DeliveryInv, Handover, Done
<1>3. CutFollowed'
  BY <1>0 DEF DeliveryInv, CutFollowed, RenewalError
<1>4. LockLasts' /\ BudgetLasts'
  BY <1>0 DEF DeliveryInv, LockLasts, Needed, InDelivery, BudgetLasts
<1> QED
  BY <1>1, <1>2, <1>3, <1>4 DEF DeliveryInv

LEMMA TakeLockKeeps ==
  ASSUME DeliveryInv, TakeLock
  PROVE  DeliveryInv'
<1>0. /\ UNCHANGED <<shutdown, health, main, cancelled, renewer, renewDone>>
      /\ BrokerIs(broker', "taken", 0)
  BY Members DEF TakeLock, BrokerIs, BrokerState, BrokerStates
<1>1. RuntimeTypes'
  BY <1>0 DEF DeliveryInv, RuntimeTypes, BrokerIs
<1>2. Handover' /\ CutFollowed'
  BY <1>0 DEF DeliveryInv, Handover, Done, CutFollowed, RenewalError
<1>3. LockLasts' /\ BudgetLasts'
  BY <1>0 DEF DeliveryInv, LockLasts, BudgetLasts, BrokerIs
<1> QED
  BY <1>1, <1>2, <1>3 DEF DeliveryInv

(***************************************************************************)
(* When time passes: both goroutines wait, so the loop waits for the queue *)
(* with no renewer, or Process or the hold runs under a context that is    *)
(* not cancelled beside a renewer that waits, or the settlement runs.      *)
(***************************************************************************)
LEMMA WhenTimePasses ==
  ASSUME DeliveryInv, Tick
  PROVE  \/ main.pc \in {"receive", "pause"} /\ renewer.pc = "ended"
         \/ /\ main.pc \in {"storage", "mail", "hold"} /\ ~Done
            /\ main.pc # "storage" => main.timer # 0
            /\ \/ renewer.pc = "select" /\ ~renewer.fired
               \/ renewer.pc = "renew" /\ renewer.timer # 0
         \/ main.pc = "settle" /\ main.timer # 0 /\ renewer.pc = "ended"
<1>1. /\ main.pc \in MainPcs /\ renewer.pc \in RenewerPcs
      /\ ~MainReady /\ ~RenewerReady /\ main.pc # "returned"
  BY DEF DeliveryInv, RuntimeTypes, MainState, RenewerState, Tick
<1>2. main.pc \in {"receive", "pause", "storage", "mail", "hold", "join", "settle"}
  BY <1>1 DEF MainReady, MainPcs
<1>3. renewer.pc \in {"ended", "select", "renew"}
  BY <1>1 DEF RenewerReady, RenewerPcs
<1>4. main.pc # "join"
  <2> SUFFICES ASSUME main.pc = "join"
               PROVE  FALSE
    OBVIOUS
  <2>1. Done /\ renewDone = "empty"
    BY <1>1 DEF DeliveryInv, Handover, Done, MainReady
  <2>2. renewer.pc # "ended"
    BY <2>1 DEF DeliveryInv, Handover, Renewing
  <2> QED
    BY <1>1, <1>3, <2>1, <2>2 DEF RenewerReady
<1>5. CASE main.pc \in {"receive", "pause", "settle"}
  BY <1>1, <1>5 DEF DeliveryInv, Handover, Renewing, Working, MainReady
<1>6. CASE main.pc \in {"storage", "mail", "hold"}
  <2>1. ~Done /\ (main.pc # "storage" => main.timer # 0)
    BY <1>1, <1>6 DEF MainReady
  <2>2. renewer.pc # "ended"
    BY <1>6, <2>1 DEF DeliveryInv, Handover, Renewing, Working
  <2> QED
    BY <1>1, <1>3, <1>6, <2>1, <2>2 DEF RenewerReady
<1> QED
  BY <1>2, <1>4, <1>5, <1>6

LEMMA TickKeeps ==
  ASSUME DeliveryInv, Tick
  PROVE  DeliveryInv'
<1>0. /\ main \in MainState /\ renewer \in RenewerState /\ broker \in BrokerState
      /\ main.timer \in Nat /\ renewer.timer \in Nat /\ renewer.ticker \in Nat \ {0}
      /\ renewer.budget \in Nat /\ broker.left \in Nat
      /\ renewer.fired \in BOOLEAN /\ main.slow \in BOOLEAN
      /\ UNCHANGED <<shutdown, health, cancelled, renewDone>>
      /\ broker' = BrokerLater /\ renewer' = RenewerLater
  BY Durations DEF DeliveryInv, RuntimeTypes, MainState, MainTimers, RenewerState, RenewTimers,
                   Tickers, Budgets, BrokerState, LockTimes, Tick
<1>1. MainIs(main', main.pc, Before(main.timer), main.mails, main.disposition, main.cut,
             main.slow \/ main.pc = "storage")
  BY <1>0, TickMain DEF Tick
<1>2. \/ renewer.pc = "ended" /\ renewer' = renewer
      \/ /\ renewer.pc # "ended"
         /\ RenewerIs(renewer', renewer.pc, Before(renewer.timer),
                      IF renewer.ticker = 1 THEN renewInterval ELSE renewer.ticker - 1,
                      renewer.fired \/ renewer.ticker = 1, Before(renewer.budget))
  <2>1. CASE renewer.pc = "ended"
    BY <1>0, <2>1 DEF RenewerLater
  <2>2. CASE renewer.pc # "ended"
    BY <1>0, <2>2, TickRenewer
  <2> QED
    BY <2>1, <2>2
<1>3. main'.pc = main.pc /\ renewer'.pc = renewer.pc /\ main'.cut = main.cut
      /\ main'.disposition = main.disposition /\ main'.timer = Before(main.timer)
      /\ main' \in MainState /\ renewer' \in RenewerState
  BY <1>0, <1>1, <1>2 DEF MainIs, RenewerIs
<1>4. Handover'
  <2>1. main'.timer <= main.timer
    BY <1>0, <1>3 DEF Before
  <2>2. main'.pc = "settle" => main'.timer <= settleTimeout
    BY <1>0, <1>3, <2>1, Durations DEF DeliveryInv, Handover, MainState, MainTimers
  <2> QED
    BY <1>0, <1>3, <2>2 DEF DeliveryInv, Handover, Done
<1>5. CutFollowed'
  BY <1>0, <1>3 DEF DeliveryInv, CutFollowed, RenewalError
<1>6. CASE main.pc \in {"receive", "pause"} /\ renewer.pc = "ended"
  <2>1. broker.state # "locked" /\ broker' = broker
    BY <1>0, <1>6 DEF DeliveryInv, LockLasts, InDelivery, Working, BrokerLater
  <2>2. RuntimeTypes'
    BY <1>0, <1>3, <2>1 DEF DeliveryInv, RuntimeTypes
  <2>3. LockLasts' /\ BudgetLasts'
    BY <1>3, <1>6, <2>1 DEF LockLasts, BudgetLasts, InDelivery, Working
  <2> QED
    BY <1>4, <1>5, <2>2, <2>3 DEF DeliveryInv
<1>7. CASE /\ main.pc \in {"storage", "mail", "hold"}
           /\ main.pc # "storage" => main.timer # 0
           /\ \/ renewer.pc = "select" /\ ~renewer.fired
              \/ renewer.pc = "renew" /\ renewer.timer # 0
  <2>0. /\ renewTimeout \in Nat /\ settleTimeout \in Nat /\ renewBudget \in Nat
        /\ Ticks(300) \in Nat /\ mailTimeout \in Nat
    BY Durations
  <2>1. Needed \in Nat /\ Needed' = Needed - 1 /\ Needed > 0
    <3>1. CASE renewer.pc = "select" /\ ~renewer.fired
      <4>1. Needed = renewer.ticker + renewTimeout + settleTimeout
        BY <3>1 DEF Needed
      <4>2. /\ renewer'.ticker = IF renewer.ticker = 1 THEN renewInterval ELSE renewer.ticker - 1
            /\ renewer'.fired <=> renewer.ticker = 1
        BY <1>0, <1>2, <3>1 DEF RenewerIs
      <4>3. CASE renewer.ticker = 1
        <5>1. Needed' = 0 + renewTimeout + settleTimeout
          BY <1>3, <3>1, <4>2, <4>3 DEF Needed
        <5> QED
          BY <2>0, <4>1, <4>3, <5>1
      <4>4. CASE renewer.ticker # 1
        <5>1. Needed' = (renewer.ticker - 1) + renewTimeout + settleTimeout
          BY <1>3, <3>1, <4>2, <4>4 DEF Needed
        <5> QED
          BY <1>0, <2>0, <4>1, <5>1
      <4> QED
        BY <4>3, <4>4
    <3>2. CASE renewer.pc = "renew" /\ renewer.timer # 0
      <4>1. Needed = renewer.timer + settleTimeout
        BY <3>2 DEF Needed
      <4>2. renewer'.timer = renewer.timer - 1
        BY <1>0, <1>2, <3>2 DEF RenewerIs, Before
      <4>3. Needed' = (renewer.timer - 1) + settleTimeout
        BY <1>3, <3>2, <4>2 DEF Needed
      <4> QED
        BY <1>0, <2>0, <3>2, <4>1, <4>3
    <3> QED
      BY <1>7, <3>1, <3>2
  <2>2. broker.state = "locked" => broker.left > Needed
    BY DEF DeliveryInv, LockLasts
  <2>3. \/ broker.state # "locked" /\ broker' = broker
        \/ broker.state = "locked" /\ BrokerIs(broker', "locked", broker.left - 1)
    BY <1>0, <2>1, <2>2, TickBroker
  <2>4. RuntimeTypes'
    BY <1>0, <1>3, <2>3 DEF DeliveryInv, RuntimeTypes, BrokerIs
  <2>5. LockLasts'
    BY <1>0, <1>3, <1>7, <2>1, <2>2, <2>3 DEF DeliveryInv, LockLasts, InDelivery, BrokerIs
  <2>6. BudgetLasts'
    <3> SUFFICES ASSUME ~main'.slow
                 PROVE  BudgetLasts'
      BY DEF BudgetLasts
    <3>1. /\ ~main.slow /\ main.pc \in {"mail", "hold"} /\ renewer.pc # "ended"
          /\ main'.mails = main.mails /\ main.timer # 0
      BY <1>0, <1>1, <1>7 DEF MainIs
    <3>2. renewer'.budget = Before(renewer.budget)
      BY <1>2, <3>1 DEF RenewerIs
    <3>3. /\ main'.timer = main.timer - 1 /\ main'.timer \in Nat
          /\ renewer'.budget \in Nat /\ renewer'.budget >= renewer.budget - 1
      BY <1>0, <1>3, <3>1, <3>2 DEF Before
    <3>4. /\ main.mails \in MailCounts /\ main.mails * mailTimeout \in Nat
          /\ maxPublicationBatchSize * mailTimeout \in Nat
      BY <1>0, MailShare DEF MainState
    <3>5. CASE main.pc = "mail"
      <4>1. /\ main.mails > 0 /\ main.timer <= mailTimeout
            /\ renewer.budget + main.mails * mailTimeout >= renewBudget + main.timer
        BY <3>1, <3>5 DEF DeliveryInv, BudgetLasts
      <4>2. renewer'.budget + main.mails * mailTimeout >= renewBudget + main'.timer
        BY <1>0, <2>0, <3>3, <3>4, <4>1
      <4>3. main'.timer <= mailTimeout
        BY <1>0, <2>0, <3>3, <4>1
      <4> QED
        BY <1>3, <3>1, <3>5, <4>1, <4>2, <4>3 DEF BudgetLasts
    <3>6. CASE main.pc = "hold"
      <4>1. renewer.budget + maxPublicationBatchSize * mailTimeout + Ticks(300)
              >= renewBudget + main.timer
        BY <3>1, <3>6 DEF DeliveryInv, BudgetLasts
      <4>2. renewer'.budget + maxPublicationBatchSize * mailTimeout + Ticks(300)
              >= renewBudget + main'.timer
        BY <1>0, <2>0, <3>3, <3>4, <4>1
      <4> QED
        BY <1>3, <3>6, <4>2 DEF BudgetLasts
    <3> QED
      BY <3>1, <3>5, <3>6
  <2> QED
    BY <1>4, <1>5, <2>4, <2>5, <2>6 DEF DeliveryInv
<1>8. CASE main.pc = "settle" /\ main.timer # 0 /\ renewer.pc = "ended"
  <2>1. Needed = main.timer /\ Needed' = main.timer - 1
    BY <1>0, <1>3, <1>8 DEF Needed, Before
  <2>2. broker.state = "locked" => broker.left > main.timer
    BY <1>8, <2>1 DEF DeliveryInv, LockLasts
  <2>3. \/ broker.state # "locked" /\ broker' = broker
        \/ broker.state = "locked" /\ BrokerIs(broker', "locked", broker.left - 1)
    BY <1>0, <1>8, <2>2, TickBroker
  <2>4. RuntimeTypes'
    BY <1>0, <1>3, <2>3 DEF DeliveryInv, RuntimeTypes, BrokerIs
  <2>5. LockLasts'
    BY <1>0, <1>3, <1>8, <2>1, <2>2, <2>3 DEF DeliveryInv, LockLasts, InDelivery, BrokerIs
  <2>6. BudgetLasts'
    BY <1>3, <1>8 DEF BudgetLasts
  <2> QED
    BY <1>4, <1>5, <2>4, <2>5, <2>6 DEF DeliveryInv
<1> QED
  BY <1>6, <1>7, <1>8, WhenTimePasses

LEMMA DeliveryStep == DeliveryInv /\ [Next]_vars => DeliveryInv'
<1> SUFFICES ASSUME DeliveryInv, [Next]_vars
             PROVE  DeliveryInv'
  OBVIOUS
<1>1. CASE Main
  BY <1>1, LoopKeeps, DeliverKeeps, VerdictKeeps, StorageReturnsKeeps, MailReturnsKeeps,
     HoldKeeps, CancelKeeps, JoinKeeps, SettleKeeps DEF Main
<1>2. CASE UNCHANGED vars
  <2>1. RuntimeTypes'
    BY <1>2 DEF DeliveryInv, RuntimeTypes, vars
  <2>2. Handover' /\ CutFollowed'
    BY <1>2 DEF DeliveryInv, Handover, Done, CutFollowed, RenewalError, vars
  <2>3. LockLasts' /\ BudgetLasts'
    BY <1>2 DEF DeliveryInv, LockLasts, Needed, InDelivery, BudgetLasts, vars
  <2> QED
    BY <2>1, <2>2, <2>3 DEF DeliveryInv
<1> QED
  BY <1>1, <1>2, RenewerKeeps, ShutdownKeeps, TakeLockKeeps, TickKeeps DEF Next

\* Nothing but the settlement of a delivery takes its message off the queue.
LEMMA OnlySettleSettles ==
  ASSUME DeliveryInv, Next, broker.state = "locked", broker'.state = "settled"
  PROVE  Settle
<1>1. main \in MainState /\ renewer \in RenewerState /\ broker \in BrokerState
  BY DEF DeliveryInv, RuntimeTypes
<1>2. broker' # broker
  OBVIOUS
<1>3. ~Deliver
  BY DeliverDoes DEF BrokerIs
<1>4. ~Join
  BY <1>1, <1>2, JoinDoes DEF BrokerIs
<1>5. ~RenewMessageLock
  BY <1>1, <1>2, RenewMessageLockDoes DEF BrokerIs
<1>6. ~TakeLock
  BY DEF TakeLock
<1>7. ~Tick
  BY DEF Tick, BrokerLater, DeliveryInv, RuntimeTypes, BrokerState
<1>8. ~Select /\ ~ReceiveFails /\ ~Pause /\ ~Verdict /\ ~StorageReturns /\ ~MailReturns
      /\ ~Hold /\ ~Cancel
  BY <1>2 DEF Select, ReceiveFails, Pause, Verdict, StorageReturns, MailReturns, Hold, Cancel
<1>9. ~RenewerStops /\ ~BudgetExhausted /\ ~StartRenewal /\ ~RenewalFailed /\ ~GiveUp /\ ~Report
  BY <1>2 DEF RenewerStops, BudgetExhausted, StartRenewal, RenewalFailed, GiveUp, Report
<1>10. ~Shutdown /\ ~HealthFails
  BY <1>2 DEF Shutdown, HealthFails
<1> QED
  BY <1>3, <1>4, <1>5, <1>6, <1>7, <1>8, <1>9, <1>10 DEF Next, Main, Renewer

LEMMA BudgetStaysWhole == DeliveryInv /\ BudgetWhole /\ [Next]_vars => BudgetWhole'
<1> SUFFICES ASSUME DeliveryInv, BudgetWhole, [Next]_vars
             PROVE  BudgetWhole'
  OBVIOUS
<1>1. renewer \in RenewerState /\ broker \in BrokerState
  BY DEF DeliveryInv, RuntimeTypes
<1>2. CASE renewer' = renewer
  BY <1>2 DEF BudgetWhole
<1>3. CASE Deliver
  BY <1>3, DeliverDoes DEF BudgetWhole, RenewerIs
<1>4. CASE renewer' = Ended
  BY <1>4, EndedIs DEF BudgetWhole, RenewerIs
<1>5. CASE BudgetExhausted
  BY <1>1, <1>5, BudgetExhaustedDoes DEF BudgetWhole, RenewerIs
<1>6. CASE StartRenewal
  BY <1>1, <1>6, StartRenewalDoes DEF BudgetWhole, RenewerIs
<1>7. CASE RenewMessageLock
  BY <1>1, <1>7, RenewMessageLockDoes DEF BudgetWhole, RenewerIs
<1>8. CASE RenewalFailed
  BY <1>1, <1>8, RenewalFailedDoes DEF BudgetWhole, RenewerIs
<1>9. CASE GiveUp
  BY <1>1, <1>9, GiveUpDoes DEF BudgetWhole, RenewerIs
<1>10. CASE Tick
  <2>1. renewer.pc = "ended" => renewer' = renewer
    BY <1>10 DEF Tick, RenewerLater
  <2>2. renewer.pc # "ended" => renewer'.pc = renewer.pc
    BY <1>1, <1>10 DEF Tick, RenewerLater, RenewerState
  <2> QED
    BY <2>1, <2>2 DEF BudgetWhole
<1>11. CASE UNCHANGED vars
  BY <1>2, <1>11 DEF vars
<1>12. CASE Main
  BY <1>2, <1>3, <1>12 DEF Main, Select, ReceiveFails, Pause, Verdict, StorageReturns,
     MailReturns, Hold, Cancel, Join, Settle
<1>13. CASE Renewer
  BY <1>4, <1>5, <1>6, <1>7, <1>8, <1>9, <1>13 DEF Renewer, RenewerStops, Report
<1>14. CASE Shutdown \/ HealthFails \/ TakeLock
  BY <1>2, <1>14 DEF Shutdown, HealthFails, TakeLock
<1> QED
  BY <1>10, <1>11, <1>12, <1>13, <1>14 DEF Next

(***************************************************************************)
(* A delivery and its renewer stay in step, and the lock and the budget    *)
(* last, for every length of a tick (processReceivedMessage and            *)
(* renewMessageLock).                                                      *)
(***************************************************************************)
THEOREM DeliveryInductive == Spec => []DeliveryInv
<1>1. Init => DeliveryInv
  BY DeliveryInit
<1>2. DeliveryInv /\ [Next]_vars => DeliveryInv'
  BY DeliveryStep
<1> QED
  BY <1>1, <1>2, PTL DEF Spec

(***************************************************************************)
(* Both goroutines stay within their states and timeouts, and the channel  *)
(* never has to hold two reports.                                          *)
(***************************************************************************)
THEOREM RuntimeTypesHold == Spec => []TypeOK
<1>1. DeliveryInv => TypeOK
  BY DEF DeliveryInv, RuntimeTypes, Handover, TypeOK, MainState, MainPcs, MainTimers, MailCounts,
         Verdicts, RenewerState, RenewerPcs, RenewTimers, Tickers, Budgets, BrokerState,
         BrokerStates, LockTimes
<1> QED
  BY <1>1, DeliveryInductive, PTL

(***************************************************************************)
(* processReceivedMessage returns or settles only after its renewer ended. *)
(***************************************************************************)
THEOREM RenewersEnd == Spec => []NoRenewerLeft
<1>1. DeliveryInv => NoRenewerLeft
  BY DEF DeliveryInv, Handover, NoRenewerLeft, Renewing
<1> QED
  BY <1>1, DeliveryInductive, PTL

(***************************************************************************)
(* Whatever the length of a tick, a lock that outlasts the interval, one   *)
(* renewal and the settlement never runs out under a delivery.             *)
(***************************************************************************)
THEOREM LocksAreKept == Spec => []LockKept
<1>1. DeliveryInv => LockKept
  BY DEF DeliveryInv, LockLasts, LockKept
<1> QED
  BY <1>1, DeliveryInductive, PTL

(***************************************************************************)
(* With ticks of at most 30 seconds, only slow storage uses up the budget  *)
(* of renewals: ten rows at the provider's timeout and the longest hold    *)
(* fit into it.                                                            *)
(***************************************************************************)
THEOREM BudgetsOutlast ==
  ASSUME TickSeconds <= 30
  PROVE  Spec => []BudgetOutlastsProvider
<1>1. DeliveryInv /\ BudgetWhole => BudgetOutlastsProvider
  <2> SUFFICES ASSUME DeliveryInv, BudgetWhole, ~main.slow
               PROVE  renewer.budget # 0
    BY DEF BudgetOutlastsProvider
  <2>1. /\ renewBudget \in Nat \ {0} /\ Ticks(300) \in Nat /\ mailTimeout \in Nat
        /\ maxPublicationBatchSize * mailTimeout + Ticks(300) < renewBudget
    BY Durations, BudgetMargin
  <2>2. /\ main.mails * mailTimeout \in Nat /\ maxPublicationBatchSize * mailTimeout \in Nat
        /\ main.mails * mailTimeout <= maxPublicationBatchSize * mailTimeout
    BY MailShare DEF DeliveryInv, RuntimeTypes, MainState
  <2>3. renewer.budget \in Nat /\ main.timer \in Nat
    BY <2>1 DEF DeliveryInv, RuntimeTypes, RenewerState, Budgets, MainState, MainTimers
  <2>4. \/ renewer.pc = "ended"
        \/ renewer.budget + main.mails * mailTimeout >= renewBudget
        \/ renewer.budget + main.mails * mailTimeout >= renewBudget + main.timer
        \/ renewer.budget + maxPublicationBatchSize * mailTimeout + Ticks(300)
              >= renewBudget + main.timer
        \/ renewer.budget + maxPublicationBatchSize * mailTimeout + Ticks(300) >= renewBudget
    BY DEF DeliveryInv, BudgetLasts
  <2> QED
    BY <2>1, <2>2, <2>3, <2>4 DEF BudgetWhole
<1>2. Init => BudgetWhole
  BY EndedIs DEF Init, BudgetWhole, RenewerIs
<1>3. DeliveryInv /\ BudgetWhole /\ [Next]_vars => BudgetWhole'
  BY BudgetStaysWhole
<1> QED
  BY <1>1, <1>2, <1>3, DeliveryInductive, PTL DEF Spec

(***************************************************************************)
(* A verdict that a cancelled context cut short never reaches the queue.   *)
(***************************************************************************)
THEOREM CutShortStaysUnsettled == Spec => CutShortUnsettled
<1>1. DeliveryInv /\ [Next]_vars =>
        [broker.state = "locked" /\ broker'.state = "settled" => ~main.cut]_vars
  <2> SUFFICES ASSUME DeliveryInv, Next, broker.state = "locked", broker'.state = "settled"
               PROVE  ~main.cut
    OBVIOUS
  <2>1. Settle
    BY OnlySettleSettles
  <2>2. SettleApplied
    BY <2>1, SettleDoes DEF BrokerIs
  <2> QED
    BY <2>1, <2>2 DEF Settle, SettleApplied, DeliveryInv, CutFollowed
<1> QED
  BY <1>1, DeliveryInductive, PTL DEF Spec, CutShortUnsettled

(***************************************************************************)
(* Every wait of the worker process ends with its context: after a signal, *)
(* or once a renewal has failed, no timer has to run out before RunWorker  *)
(* returns or processReceivedMessage has joined its renewer.               *)
(***************************************************************************)
THEOREM WaitsEnd == Spec => []NoIdleWait
<1>1. DeliveryInv => NoIdleWait
  <2> SUFFICES ASSUME DeliveryInv PROVE NoIdleWait
    OBVIOUS
  <2>1. main.pc \in MainPcs /\ renewer.pc \in RenewerPcs
    BY DEF DeliveryInv, RuntimeTypes, MainState, RenewerState
  <2>2. ASSUME Done, renewer.pc # "ended" PROVE RenewerReady
    BY <2>1, <2>2 DEF RenewerReady, RenewerPcs
  <2>3. ASSUME Done, main.pc = "join" PROVE MainReady \/ RenewerReady
    BY <2>2, <2>3 DEF DeliveryInv, Handover, Renewing, MainReady
  <2>4. ASSUME shutdown PROVE main.pc = "returned" \/ MainReady \/ RenewerReady
    BY <2>1, <2>3, <2>4 DEF Done, MainReady, MainPcs
  <2>5. ASSUME cancelled, main.pc \in Renewing PROVE MainReady \/ RenewerReady
    BY <2>3, <2>5 DEF Done, MainReady, Renewing, Working
  <2> QED
    BY <2>4, <2>5 DEF NoIdleWait
<1> QED
  BY <1>1, DeliveryInductive, PTL
==============================================================================
