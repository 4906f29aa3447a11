--------------------------- MODULE RuntimeInvariant ---------------------------
(***************************************************************************)
(* The inductive invariants behind the safety properties of Runtime: who   *)
(* still runs and who has reported (Handover), what a cancelled context    *)
(* leads to (CutFollowed), how long the lock still lasts (LockLasts), and  *)
(* how much of the renewal budget a delivery can have used (BudgetLasts).  *)
(***************************************************************************)
EXTENDS Runtime

MainPcs ==
  {"select", "receive", "pause", "returned", "storage", "mail",
   "hold", "cancel", "join", "settle"}

MainTimers == 0 .. Ticks(300)

MailCounts == 0 .. maxPublicationBatchSize

Verdicts == Dispositions \cup {"Canceled"}

MainState ==
  [pc : MainPcs, timer : MainTimers, mails : MailCounts, disposition : Verdicts,
   cut : BOOLEAN, slow : BOOLEAN]

RenewerPcs == {"ended", "select", "renew", "failed", "giveUp", "report"}

RenewTimers == 0 .. renewTimeout

Tickers == 1 .. renewInterval

Budgets == 0 .. renewBudget

RenewerState ==
  [pc : RenewerPcs, timer : RenewTimers, ticker : Tickers, fired : BOOLEAN,
   budget : Budgets]

BrokerStates == {"free", "locked", "settled", "expired", "taken"}

LockTimes == 0 .. Ticks(LockSeconds)

BrokerState == [state : BrokerStates, left : LockTimes]

RuntimeTypes ==
  /\ shutdown \in BOOLEAN /\ cancelled \in BOOLEAN
  /\ health \in {"serving", "failed"}
  /\ main \in MainState
  /\ renewer \in RenewerState
  /\ renewDone \in {"empty", "nil", "error"}
  /\ broker \in BrokerState

\* The part of a delivery in which its renewer may run.
Renewing == Working \cup {"hold", "cancel", "join"}

(***************************************************************************)
(* A renewer that runs has not reported, and one that has ended has, until *)
(* the report is taken; it ends only once the context is cancelled.        *)
(***************************************************************************)
Handover ==
  /\ renewer.pc # "ended" => main.pc \in Renewing /\ renewDone = "empty"
  /\ main.pc \in Renewing /\ renewer.pc = "ended" => renewDone # "empty" /\ Done
  /\ main.pc \in {"join", "settle"} \/ renewer.pc = "report" => cancelled
  /\ main.pc = "settle" => main.timer <= settleTimeout

(***************************************************************************)
(* Before Process and the hold are over only a renewer that failed cancels *)
(* the context; what is cut short then meets its error, or a shutdown.     *)
(***************************************************************************)
RenewalError == renewer.pc = "report" \/ renewDone = "error"

CutFollowed ==
  /\ main.pc \in Working \cup {"hold", "cancel"} /\ cancelled => RenewalError
  /\ main.pc \in {"hold", "cancel", "join"} /\ main.cut => shutdown \/ RenewalError
  /\ main.pc \in {"hold", "cancel", "join"} /\ main.disposition = "Canceled" => main.cut
  /\ main.pc = "settle" /\ main.cut => shutdown

(***************************************************************************)
(* A lock under a delivery lasts for all that may pass before it is        *)
(* renewed or used: the rest of the interval, the renewal call and the     *)
(* settlement.                                                             *)
(***************************************************************************)
Needed ==
  CASE renewer.pc = "select" ->
         (IF renewer.fired THEN 0 ELSE renewer.ticker) + renewTimeout + settleTimeout
    [] renewer.pc = "renew" -> renewer.timer + settleTimeout
    [] OTHER -> IF main.pc = "settle" THEN main.timer ELSE settleTimeout

LockLasts ==
  /\ broker.state = "locked" => InDelivery /\ broker.left > Needed
  /\ InDelivery => broker.state # "expired"

(***************************************************************************)
(* What is left of the budget while no storage call took time: the calls   *)
(* to the provider and the hold have used no more than their timeouts.     *)
(***************************************************************************)
BudgetLasts ==
  renewer.pc # "ended" /\ ~main.slow =>
    CASE main.pc = "storage" -> renewer.budget + main.mails * mailTimeout >= renewBudget
      [] main.pc = "mail" ->
           /\ main.mails > 0 /\ main.timer <= mailTimeout
           /\ renewer.budget + main.mails * mailTimeout >= renewBudget + main.timer
      [] main.pc = "hold" ->
           renewer.budget + maxPublicationBatchSize * mailTimeout + Ticks(300)
             >= renewBudget + main.timer
      [] OTHER ->
           renewer.budget + maxPublicationBatchSize * mailTimeout + Ticks(300) >= renewBudget

\* The budget is a timer of the renewer: with no renewer it is whole.
BudgetWhole == renewer.pc = "ended" => renewer.budget = renewBudget

DeliveryInv ==
  RuntimeTypes /\ Handover /\ CutFollowed /\ LockLasts /\ BudgetLasts

(***************************************************************************)
(* No wait outlives its context: once the process is told to stop, or the  *)
(* context of a delivery is cancelled, some goroutine can go on at once,   *)
(* until RunWorker has returned or the delivery is settled or given back.  *)
(* The two never wait for each other (processReceivedMessage,              *)
(* renewMessageLock, waitContext).                                         *)
(***************************************************************************)
NoIdleWait ==
  /\ shutdown => main.pc = "returned" \/ MainReady \/ RenewerReady
  /\ cancelled /\ main.pc \in Renewing => MainReady \/ RenewerReady
==============================================================================
