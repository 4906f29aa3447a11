----------------------------- MODULE WorkerEffect -----------------------------
(***************************************************************************)
(* Worker implements Effect: everything a worker does to receipts, in many *)
(* small steps, crashes and conflicts, is for the recipient an attempt, a  *)
(* verdict, or nothing.                                                    *)
(***************************************************************************)
EXTENDS Worker

\* The verdict a stored receipt stands for.
VerdictOf(receipt) ==
  CASE receipt.status \in Delivered -> "notified"
    [] receipt.status = "FAILED"    -> "failed"
    [] receipt.status = "UNKNOWN"   -> "unknown"
    [] OTHER                        -> "open"

Promise ==
  INSTANCE Effect WITH Recipients <- Paths,
                       tries      <- requests,
                       mailed     <- effects,
                       verdict    <- [p \in Paths |-> VerdictOf(receipts[p])]

(***************************************************************************)
(* Every behaviour of the worker (Process, processRecipient and the        *)
(* receipt store, with redeliveries, lost locks and late writes) is, seen  *)
(* by the recipients, a behaviour that Effect allows.                      *)
(***************************************************************************)
ImplementsEffect == Promise!Spec
==============================================================================
