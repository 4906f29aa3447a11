CONSTANTS
  Publishers = {a1, a2}
  NoRequest = NoRequest
  Requests <- MCRequests
  MaxLate = 1
  RowBytes <- ShortRow
  MaxRowBytes = 2
  MaxBatches = 3
  MaxRecipients = 3
SPECIFICATION MCSpec
SYMMETRY PublisherSymmetry
INVARIANTS
  TypeOK
  MessageIsServable
  BatchesDisjoint
  OneIntentPerVersion
  CurrentAnnouncesQueued
PROPERTY
  CurrentAdvances
