------------------------ MODULE DistributionInvariant ------------------------
(***************************************************************************)
(* The inductive invariant behind the safety properties of Distribution:   *)
(* what the publisher relies on (PlanInv), that runs and messages stand    *)
(* for merged commits, and that receipts stand for messages.               *)
(***************************************************************************)
EXTENDS Distribution, PublisherInvariant

\* The operation of a commit that was merged and accepted.
FromCommit(operation) ==
  /\ operation.commit \in 1..Len(commits)
  /\ commits[operation.commit] \in DOMAIN SourceTable
  /\ operation.source = SourceTable[commits[operation.commit]]

\* A cohort of addresses in the files.
Known(recipients) == \A i \in 1..Len(recipients) : recipients[i] \in Addresses

\* A row of the message gave the receipt.
GaveReceipt(m, path) ==
  /\ m.operationID.commit = path[1]
  /\ path[2] \in Rows(m)
  /\ m.index = receipts[path].index

ReceiptState == [index : Nat, status : {"open", "notified", "not notified"}]

CommitInv ==
  /\ commits \in Seq(DOMAIN Trees) /\ Len(commits) <= MaxCommits
  /\ receipts \in [Paths -> ReceiptState]
  /\ \A p \in Publishers : run[p].pc # "idle" =>
       FromCommit(deriveOperationID(run[p].request)) /\ Known(run[p].request.recipients)
  /\ \A m \in sent :
       FromCommit(m.operationID) /\ ParseQueueMessageAllowed(m) /\ Rows(m) \subseteq Addresses
  /\ \A path \in Paths :
       receipts[path].index # 0 \/ mailed(path) => \E m \in sent : GaveReceipt(m, path)

(***************************************************************************)
(* The inductive invariant of the system.                                  *)
(***************************************************************************)
SystemInv == PlanInv /\ CommitInv
==============================================================================
