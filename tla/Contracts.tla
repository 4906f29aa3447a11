------------------------------ MODULE Contracts ------------------------------
(***************************************************************************)
(* What the publisher and the worker check of a message, a manifest and a  *)
(* batch of recipients (internal/distribution/contracts.go and the checks  *)
(* of worker.go before the first row).  A value that is too long, too many *)
(* or out of order is told apart from one that is not; the characters of a *)
(* field are left out.  The first batch has index 1 instead of 0.          *)
(***************************************************************************)
EXTENDS Naturals, Sequences

CONSTANTS
  RowBytes(_),    \* length of the JSON row of a recipient
  MaxRowBytes,    \* 1024: the longest row ParseRecipient takes
  MaxBatches,     \* 10000: batches of an operation
  MaxRecipients   \* 500: recipients a message may announce

ASSUME ContractsAssumption ==
  MaxRowBytes \in Nat /\ MaxBatches \in Nat \ {0} /\ MaxRecipients \in Nat \ {0}

ParseRecipientAllowed(recipient) == RowBytes(recipient) <= MaxRowBytes

\* BatchReference.valid
BatchReferenceValid(index, batchCount, recipientCount) ==
  /\ index \in 1 .. MaxBatches
  /\ batchCount \in 1 .. MaxBatches
  /\ index <= batchCount
  /\ recipientCount \in 1 .. MaxRecipients

ParseQueueMessageAllowed(m) ==
  /\ m.messageID = <<m.operationID, m.index>>
  /\ BatchReferenceValid(m.index, m.batchCount, m.recipientCount)

\* The scanner's buffer of 1024 bytes has to hold a row and its line end.
scanRecipientRowsAllowed(rows) ==
  /\ rows # << >>
  /\ \A i \in 1..Len(rows) :
       RowBytes(rows[i]) + 1 <= MaxRowBytes /\ ParseRecipientAllowed(rows[i])

validateBatch(rows, expectedCount) ==
  scanRecipientRowsAllowed(rows) /\ Len(rows) = expectedCount

manifestMatchesMessage(manifest, m) ==
  manifest.operationID = m.operationID /\ manifest.releaseVersion = m.releaseVersion
==============================================================================
