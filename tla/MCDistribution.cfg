CONSTANTS
  Publishers = {a1}
  NoRequest = NoRequest
  Requests <- MCRequests
  MaxLate = 1
  RowBytes <- MCRowBytes
  MaxRowBytes = 2
  MaxBatches = 2
  MaxRecipients = 3
  MaxArchiveBytes = 2
  MaxArchiveEntries = 3
  MaxUncompressedBytes = 4
  Trees <- MCTrees
  Files <- MCFiles
  Addresses = {1, 2, 3, 4}
  BatchSize = 1
  MaxCommits = 2
SPECIFICATION SystemSpec
CHECK_DEADLOCK FALSE
INVARIANTS
  OneMailPerVersion
  MailedIsDownloadable
  OnlyLimitsFallThrough
PROPERTY ReplayCompletes
