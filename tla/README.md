# Verification of the release distribution

This directory holds a TLA+ model of the DAR release distribution, TLC
configurations that check it on small instances, and TLAPS proofs of its
safety properties for every size of the system.

## The system and its parts

A release travels through three Go programs.

1. **Release publisher** (`cmd/dar-release-publisher`, `internal/publication`).
   One run per release commit. It stores an identity blob, the release file, a
   manifest and the recipient batches as blobs that are never overwritten, puts
   one message per batch on a Service Bus queue, and then advances the *current*
   manifest of the release under an ETag condition. A failed run is repeated.
2. **Notification worker** (`cmd/dar-distribution-worker`,
   `internal/distribution`). It receives messages in Peek-Lock mode, reads the
   manifest and the batch they name, and for every row sends one mail. Each mail
   is guarded by a *receipt*, a small blob with its own state machine that is
   only written under an ETag condition. Then it settles the delivery: complete,
   abandon (after holding it for a while), or dead-letter.
3. **Download app** (`cmd/dar-download`, `internal/httpapi`, `internal/download`,
   `internal/blob`, `internal/auth`). It authenticates a request and streams the
   release file, or a byte range of it, in segments bound to one ETag.

Inventory:

| Part | State | Operations | What is hard |
| --- | --- | --- | --- |
| receipt journal (`receipt.go`) | status, attempts, version, times | claim, start, accept/simulate, retry, fail, unknown, reclaim, exhaust, recover | what may follow what after a crash |
| worker (`worker.go`) | the row it is on, receipt and ETag it saw, the time it read | Process, processRecipient, applyMailResult | two workers on one message; state read before a call and used after it |
| receipt store (`azure_storage.go`) | blobs with ETags | Get, Create, Replace | a write that is applied and reported as failed; write and read are two calls |
| runtime (`runtime.go`) | a delivery and its lock, two goroutines, their contexts and channel | receive, hold, renew, settle | the lock is lost, or the process stopped, while the work goes on |
| mail client (`mail.go`) | none | Send | an answer that says neither yes nor no |
| publisher (`publisher.go`, `publication/azure.go`) | blobs, queue, current manifest | Publish, PutImmutable*, PutCurrentManifest | overlapping, interrupted and repeated runs |
| source discovery (`source.go`) | none | DiscoverSource, ParseRecipients | it must accept nothing that a later stage refuses |
| message contracts (`contracts.go`) | none | ParseQueueMessage, ParseRecipient | publisher and worker must agree |
| download handler (`handler.go`) | one response | ServeHTTP, stream | the blob changes during a download |
| download process (`cmd/dar-download`) | serving or stopping | run | a signal cancels responses half-way |
| range selection (`range.go`) | none | Select | boundaries |
| identity, configuration, strict JSON | none | parsing | pure validation |

`PROJECT.json` lists every part with what is modelled of it, and the hazards
with the lines where they bite.

## Modules

| Module | Models | Uses |
| --- | --- | --- |
| `Receipt` | the receipt as a value; each Go method is a condition (`XAllowed`) and a result (`X`) | |
| `RetryPolicy` | delays: `boundedDelay`, `retryDelay`, `activeDelay` | `Receipt` |
| `Worker` | workers, queue, receipt store, provider, clock | `RetryPolicy` |
| `WorkerInvariant` | the inductive invariants `IInv`, `AuditInv`, `OrderInv`, `DueInv`, `AccountInv`; how far a delivery is (`Place`) | `Worker` |
| `WorkerTypes` | proofs: type correctness, deliveries only go forward | `WorkerInvariant` |
| `WorkerSafety` | proofs: `IInv` and what follows from it, the life of a receipt is finite | `WorkerTypes` |
| `WorkerDelivery` | proofs: audits, the order of rows, retry times | `WorkerSafety` |
| `WorkerLiveness` | workers after the faults have stopped | `Worker` |
| `Effect` | the promise to a recipient: at most one mail, one true verdict | |
| `WorkerEffect` | `Worker` implements `Effect` | `Worker`, `Effect` |
| `WorkerRefinement` | proofs: that it does, what the promise is worth, and that both hold in the long run | `WorkerSafety`, `WorkerEffect`, `WorkerLiveness` |
| `Runtime` | the worker process: receive loop, lock renewer, timers, shutdown | |
| `RuntimeInvariant`, `RuntimeSafety` | the inductive invariant of `Runtime`, proofs | `Runtime` |
| `Contracts` | what publisher and worker check of messages, manifests and batches | |
| `Publisher` | publisher runs, blob store, messages sent | `Contracts` |
| `PublisherInvariant`, `PublisherSafety` | the inductive invariant of `Publisher`, proofs | `Publisher` |
| `Source` | what a pipeline run accepts and reads: folders, archives, recipient files | |
| `Distribution` | commits, pipeline runs, publisher, queue, worker together | `Publisher`, `Source` |
| `DistributionInvariant`, `DistributionSafety` | the inductive invariant of the composition, proofs | `Distribution`, `PublisherSafety` |
| `RangeSelect` | `download.Select`, and what a byte range means | |
| `Download` | one response, the object it reads, the client's file, the server process | `RangeSelect` |
| `DownloadInvariant`, `DownloadSafety` | the inductive invariant of `Download`, proofs, and what `Select` computes | `Download`, `DownloadLiveness` |
| `DownloadLiveness` | a client that keeps asking once the world is calm | `Download` |
| `MCWorker`, `MCWorkerLiveness`, `MCRuntime`, `MCPublisher`, `MCDistribution`, `MCDownload` | the instances TLC checks | |

Definitions called `...Slip` are plausible mistakes in the definition after
them. No specification uses them; putting one in place of its neighbour must
make TLC report a property as violated.

### Worker and Receipt

A step of a worker is one call to something outside it, together with the local
computation up to the next call. The control points of a worker (`pc`) are:

| `pc` | next call in the code | action |
| --- | --- | --- |
| `idle` | `ReceiveMessages` | `Receive` |
| `blobs` | manifest, `Verify`, `validateBatch`, `Open` | `ReadBlobs` |
| `row` | next line of the batch; `Clock()` | `ScanRow` |
| `get`, `reget` | `Receipts.Get`, again after a lost `Create` | `GetReceipt`, `GetAfterConflict` |
| `upload`, `reread` | the two halves of `put` | `Upload`, `Reread` |
| `send` | `Mailer.Send`, then `applyMailResult` | `Send` |
| `settle` | wait, then complete/abandon/dead-letter | `Settle` |

`step` says which write is under way (create, exhaust, reclaim, recover, start,
commit) and so what follows it. `now` is the one clock reading of a row; the code
uses it for everything the row does, however late.

The environment: `Interrupt` (crash, shutdown, failed renewal: the code then
never settles), `LockExpires`, `LateUpload` (a write whose caller has given up is
applied after all), `Tick`. A store call can fail before or after taking effect,
and can be reported as a conflict with its own write, since the client library
repeats uploads. Receipt times lose their fraction of a second (`formatTime`);
`TicksPerSecond` makes that visible. `effects` counts the requests the provider
accepted or may have accepted, `requests` all requests, `audits` terminal audit
events; no action reads them.

Abstractions: a blob reference names an exact version, so blob reads are modelled
by their outcomes only. `BlobChecks` tells the call from the body: a call that fails is a
dependency error and abandons the message, a body that breaks off inside `ReadSmall` or
`Verify`, or in `validateBatch`, is a contract error and dead-letters it. A message is well formed or in `Malformed`. HMAC keys,
addresses, payloads and reason texts are left out. A 429 or 5xx answer is taken
for a refusal, as the program takes it: if a provider accepted mail and answered
so, the program would send again, and the model does not count that. Dead-lettering
by the broker's own delivery limit is configuration outside the repository and not
modelled; it would only remove deliveries.

The key of the HMAC is fixed. Its version and the HMAC of the address are part of
the path of a receipt (`worker.go:236`), so the promises about one mail hold for as
long as neither changes: after a change, messages that are still queued or are sent
again find no receipt. The documents of the repository do not say what should happen.

### Effect and WorkerEffect

`Effect` is the specification a recipient would write: the provider accepts at most
one request and sees none after it, and a verdict is given once and is true. It has
three variables and two actions. `WorkerEffect` maps a stored receipt to a verdict
and the counters of `Worker` to `tries` and `mailed`; every step of a worker, of the
store and of the queue is then an `Attempt`, a `Conclude` or a stutter. One corner is
visible in `Attempt`: a worker whose send was judged stale may still make its request
after the verdict *unknown*, which is what that verdict allows for.

### Runtime

`Runtime` has the two goroutines of a delivery: `main` (`RunWorker` and
`processReceivedMessage`) and `renewer` (`renewMessageLock`). A `select` in which
several cases are ready takes any of them. `Process` is seen from outside: storage
calls of any length, provider calls that end after `mailTimeout`, one per row, and
a verdict, which is *cut* when a cancelled context caused it. Timers count ticks down
and a tick passes only when both goroutines wait, so local steps take no time and
timers are exact. Durations are rounded up to ticks of ten seconds.

The repository does not set the lock duration of the queue. `LockAssumption` is what
the code needs: wait for the ticker, the renewal and the settlement must fit into it.
The instance takes 70 seconds, because the 15 seconds of the settlement are two ticks
here; with ticks of five seconds the usual 60 are enough.

`Process` ignores most reasons of a cancellation and may call it a broken batch.
`CutShortUnsettled` shows why that is harmless: either the renewer reports an error,
or the settlement is made under the parent context, which is cancelled too.

Fairness: a goroutine that is ready runs, and time passes. A storage call owes no
answer until its context is cancelled.

### WorkerLiveness

`healthy` is FALSE during a time of faults of any length, in which everything in
`Worker` can happen, and then TRUE for ever: calls succeed, nobody crashes, only
locks of deliveries nobody works on expire. The provider still answers as it
likes. The clock must not stop, so at `MaxClock` its origin moves (`Rebase`):
every stored time is lowered by one tick, down to zero. That is faithful because
the program only uses differences of times and treats all ages from
`ClaimTimeout` on alike; `Rebase` waits for workers that are in the middle of a
row with an older clock reading. Two theorems state this: `OriginIsInvisible` (the
tests) and `TransitionsMoveWithOrigin` (what is written), see Proofs.

Fairness: the faults stop, time passes, a worker that can take a step takes one
(`RunWorker` loops until it is shut down, and each call has a timeout), and an
unrenewed lock expires. All are weak fairness.

### Publisher

`blobs` maps names to contents with an ETag that counts writes; ETag 0 stands for
`If-None-Match: *`. A run goes through uploads (identity, DAR, manifest, batches),
sends, and the current manifest, which is read by two calls (`StatCurrent`,
`DownloadCurrent`) and written by a third (`Upload`). Every error makes `Publish`
return without a further effect, so all errors are `Stop`, which may follow any
call that took effect. `late` holds uploads that arrive after their run has ended.
A digest stands for its content, a number for a version's four numbers.

### Contracts, Source and Distribution

`Contracts` holds the checks that both ends of the queue make, `Source` what
`loadInput` accepts of a commit and of the recipient file, both as operators over
abstract values: names have a version or not, members and rows are proper or not, an
address has one canonical form and several spellings.

`Distribution` composes them. `Merge` adds a commit when the run of the one before has
completed, as the release procedure in `docs/release-distribution.md` has it;
`publishCommand` starts a run for any commit with whatever the recipient file holds at
that moment; the publisher's steps are those of `Publisher`; the worker takes rows of
any message sent, in any order, as often as it likes, but only after its checks
(`ProcessAllowed`) and by the promise of `Effect`, so one step gives a row its verdict.
Receipts are kept per operation and address and remember their message, since
`receiptMatches` compares it.

`Settle` starts the calm in which `ReplayCompletes` is claimed: no call fails, and the
recipient file stays what the stored batches were made of. Fairness: a publisher that
can go on does (weak), and the run of the newest commit is started again when the last
one has ended (strong, because runs that find a late upload in their way end and begin
anew).

Three limits are drawn apart by the stages, and `OnlyLimitsFallThrough` shows that
there is no fourth: the validation stage knows neither the longest row nor the largest
number of batches that `plan` allows, and `plan` allows a row of exactly 1024 bytes,
which does not fit with its line end into the worker's scanner buffer
(`worker.go:482`).

### RangeSelect and Download

`RangeSelect` keeps every early return of `Select`, `ifRangePermits` and
`parseRange` over abstract headers: a range is absent, repeated, malformed or two
numbers of which either may be missing. `Meaning` is the reference: the set of
positions that a range names.

`Download` follows `ServeHTTP` from `Stat` on: `Stat` (metadata, size limit,
selection, empty selection), `OpenRange` and `copySegment` in turn, then the end of
the response. Between any two of them the object may be replaced or deleted and the
client may leave (`left`, the cancelled context). A byte is the pair of its version
and position, so a spliced body or file is visible. A segment that was opened is
served from the version it was opened on; that is the blob service's promise, and
so is `If-Match`.

A failed storage call is reported as unavailable, as not found (only of an object that is
gone) or as a deadline, which may be a timeout of the storage client and need not be the
request's (`translateError`). `writeStorageError` writes nothing when the request's context
is done or the error is a deadline, and the handler returns: `net/http` then sends a 200
with `Content-Length: 0` and without ETag. The model has this answer as what it is to a
client, a status of 200 under headers that name no version (`announced = 0`). All other
answers of status 200 and 206 announce the ETag of the metadata read and the length of the
selection (`ContentLength`).

The client is the environment, and knows only what it was told: its file has the ETag and
the length (`total`) of the 200 that began it. It keeps a prefix of what was written, or
nothing if the connection broke before the headers (`Lose`), starts anew on 200, and appends
a 206 that answers its `Range: bytes=n-` with `If-Range`, which is the resumption
`docs/operations.md` offers. Requests share only the object, so one at a time is enough.
Requests refused before `Stat` are left out.

The process serves, stops or is down. `Signal` cancels the context of every request at
once, because `run` makes the signal's context the base of theirs; `Exit` ends the
process, after a signal or by a crash, with a part of the open segment written.

`DownloadLiveness` adds a moment from which the object stays, calls succeed unless their
context is cancelled, nobody stops the server or hangs up, and a client that lacks
something asks for it: for the rest if it holds a part, for all if it holds nothing. It
stops when its file looks complete (`LooksComplete`), which is all it can tell, and may be
wrong about it after an empty answer. So `DownloadCompletes` has two parts: in the calm
every client comes to a file that looks complete; and a client that still lacks something
when no signal is being obeyed and no earlier request is open comes to hold the object as it
is. Fairness is weak: the handler and the client go on, and a process that was told to stop
ends and is started again.

## Runs

| Run | Instance | Checks |
| --- | --- | --- |
| `redelivery` | 2 workers, 1 message, 1 recipient, 2 attempts, half-second clock, late writes | all worker safety properties and `IInv` |
| `rows` | 2 workers, 1 message, 2 recipients | rows are mailed in order, and the worker implements `Effect` |
| `mixed` | 1 worker, a message queued twice, one with an overlapping batch, a malformed one | completed means delivered |
| `progress` | 1 worker, faults first, late writes | deliveries are settled once faults stop |
| `contention` | 2 workers, 2 copies of a message, no faults | conflicts do not go round for ever |
| `replay` | 2 publisher processes, in one of two worlds (`world`): one version with 9 inputs (cohorts, batch sizes, dates, commits, artifacts), or 3 versions | messages can be served, batches are disjoint, one commit per version, current follows the sends and only advances |
| `renewal` | 1 worker process, ticks of 10 s, a 70 s lock, holds of 1 and 300 s | nothing cut short is settled, the lock is kept, the budget suffices, deliveries and shutdowns end |
| `distribution` | 1 publisher process, 2 commits out of 4 folders, 5 recipient files, batches of 1, a late upload | one mail per version, links work, stages agree, repeated runs complete |
| `download` | objects of 0, 1, 3 and (too large) 4 bytes, segments of 2, 2 versions, all ranges over -1..3 and three with a number over the limit, a server that stops and starts | ranges mean what they say, one version per body and per resumed file, completed means complete, a persistent client gets the whole object |
| `blob_fault` | expected violation | see Findings |
| `stale_claim` | expected violation | see Findings |
| `empty_answer` | expected violation, the instance of `download` | see Findings |

Why these bounds: what goes wrong between workers goes wrong between two on one
receipt; two attempts are the first case with a retry, a reclaim and an exhausted
budget; `MaxClock` is at least `ClaimTimeout` and long enough for a retry to fall
due; one late write can arrive at any point of the other worker's row. Two
publishers and three versions give a run that holds an ETag two writes old. Three
bytes in segments of two give a full and a short segment, and every number lies on
each side of each size. Two versions of an object are a file begun and one that
replaced it. Two commits are an announced version and one that repeats it, changes it or
follows it; the folders and files differ in each limit that a stage checks (unpacked
size, longest row, number of batches, an address in two spellings). `Runtime` has its
real durations: 15 minutes are 90 ticks. For the safety properties the proofs remove
all these bounds; progress is checked within them only. Deadlock is not checked in the worker's safety runs, because with a bounded
clock and all messages settled the system may stop, nor where the process may return
(`renewal`), everything may be published (`distribution`) or the client be satisfied
(`download`).

The properties, in short:

- `AtMostOneEffect`, `NoResend`: nobody is mailed twice for one operation.
- `BoundaryBeforeSend`, `JournalTruthful`: a stored receipt never permits a
  resend of, or claims, something that is not so.
- `AttemptBudget`: the provider sees no more requests than attempts were counted.
- `ReceiptsMonotone`, `RereadIsOwnWrite`, `TerminalAuditedOnce`: the store
  protocol under lost and late writes.
- `RetryOnlyWhenDue`, `AbandonHoldsUntilDue`: old clock readings and truncated
  times never start a retry early or return a delivery before its retry is due.
- `BatchPrefix`, `CompletedDelivered`: rows in order; completed means delivered.
- `ImplementsEffect`: all of this as the recipient sees it.
- `EverySettled`, `StaleSendEnds`, `ContentionEnds`: progress.
- `CutShortUnsettled`, `NoRenewerLeft`, `LockKept`, `BudgetOutlastsProvider`,
  `DeliveryEnds`, `StopEnds`: the worker process and its lock renewer.
- `MessageIsServable`, `BatchesDisjoint`, `OneIntentPerVersion`,
  `CurrentAnnouncesQueued`, `CurrentAdvances`: the publisher.
- `AnswerIsMeant`, `StreamIsOneVersion`, `CompletedIsWhole`,
  `ResumedFileIsOneVersion`, `DownloadCompletes`: the download app.
- `OneMailPerVersion`, `MailedIsDownloadable`, `OnlyLimitsFallThrough`,
  `ReplayCompletes`: from the commit to the recipient.

## Findings

1. `blob_fault`: a storage failure inside `validateBatch`, or while the rows are
   being streamed, dead-letters the message (`worker.go:177`, `:205`), and so does a
   body that breaks off in `ReadSmall` or `Verify` (`azure_storage.go:51`, `:66`), while
   the test at `worker_test.go:154` says transient blob failures abandon it.
2. `stale_claim`: a claim that took the last attempt and was left behind is never
   reclaimed or ended (`receipt.go:220`), while the comment at `receipt.go:213`
   says stale pre-send work is reclaimed. `EverySettled` shows that this is the
   only way a delivery can go round for ever.
3. `empty_answer`: `writeStorageError` writes nothing after a cancellation or a deadline
   (`handler.go:228`), so a client that is still connected, because the server is
   shutting down or the storage client timed out, receives a complete 200 of length 0.
   `docs/threat-model.md:83` says that a response contains bytes of one observed version
   or fails. `CompletedIsWhole` shows that the log never calls such an answer completed,
   `ResumedFileIsOneVersion` that it is the only wrong file a client can take for whole:
   a file with an ETag is a prefix of that version.

## Proofs

TLAPS proves every safety invariant and every action property that the passing runs
check, and the refinement of `Effect`, for every value of the constants. The
assumptions are named, stand in the modules that declare the constants, and are
evaluated by TLC in the runs:

- worker: `MaxAttempts \in 1..5` and a positive `ClaimTimeout` (`NewWorker` refuses
  others), `MaxDelay >= TicksPerSecond > 0`, and the types of the rest;
- publisher: batch sizes of 1 to 10 (the configuration allows no others), cohorts are
  sequences, row lengths are numbers;
- runtime: a tick is at least a second, and the lock lasts longer than interval,
  renewal and settlement (`LockAssumption`);
- download: positive segments, and range headers as `parseRange` meets them; for
  `CalmIsDownload`, that a request without a range is among them;
- the two theorems about the origin of the clock: one tick to the second, as in
  `WorkerLiveness`;
- composition: the recipient files hold addresses, and `Requests` has what the
  pipeline makes of accepted inputs.

Two theorems have a hypothesis of their own. `RowsInOrder` assumes `DistinctRows`, no
recipient twice in a batch: `validateBatch` does not check it, but the publisher makes
no other batches (`source.go:164`, and `validRecipients`), which `RowsStayInOrder`
proves. `BudgetsOutlast` assumes
ticks of at most 30 seconds: durations are rounded up to ticks, and with longer ones
the rounding alone uses the budget up.

Each property follows from an inductive invariant, which says what the actors know in
the middle of an operation. TLC was run on each of them as well, on the instances
of the runs.

**Worker types** (`WorkerTypes`). `TypeOK` is not inductive: a worker in the middle of a
row must have an entry, a row of its batch and, when writing, a receipt. `TypeInv` adds
that (`ControlOK`); one lemma per action says where it takes its worker. `DeliveriesEnd`
uses the same lemmas: `Place` numbers the calls of a delivery, twelve to a row, so that
every step of `Process` goes up in it, to the verdict, or ends the delivery. A lost
`Create`, which reads again what it has read (`reget`), is the case that could go round:
what follows it is never another create.

**The journal** (`WorkerSafety`). The properties speak of stored receipts and of the
provider, but hold because of what `IInv` adds about workers:

- the ETag and the receipt's version count the same writes (`VersionIsETag`);
- a write that may still be applied, a worker's or a late one, is a legal
  successor of the stored receipt *if* its ETag is current, and if it records how
  a send ended then nobody can still make that send (`GoodWrite`);
- a worker reading its own write back sees it or something newer (`GoodReread`);
- a worker about to send has its SEND_STARTED stored, or overtaken by UNKNOWN, and
  no request was made on it (`GoodSend`);
- one version gives one worker the right to send (`OneSender`).

The step lemmas follow the kinds of step: one that touches neither the store nor
the provider (`LocalStep`), a write being applied (`ApplyWrite`), a worker that has
read back its SEND_STARTED (`StartSending`), the call of the provider (`SendStep`).

`ReceiptsEnd` bounds the writes at a path by three per attempt and one. Its invariant
`AccountInv` says it of every write that may still be applied as well: a version is at
most what the attempts before it (claimed, started, ended) and its own status account
for. The bound is reached, by a receipt whose attempts all ended in a retry and whose
budget was then found exhausted.

**The promise** (`WorkerRefinement`). From `IInv`: the call of the provider is an
`Attempt`, a write that the store applies is a `Conclude` or says nothing new, and all
else is a stutter. `RecipientsCanRely` says what that is worth: of the worker's requests no
more than one is accepted, no verdict is wrong (`Kept`), and nothing is taken back
(`Irrevocable`). Its lemma `PromiseHolds` draws this from `Effect` alone.

**The long run** (`WorkerRefinement`). `WorkerLiveness` is not a refinement of `Worker`,
because `Rebase` changes stored times. `RebaseTyped`, `RebaseJournal` and `RebaseRefines`
show that it keeps `IInv` and is a stutter of `Effect`; every other step is a step of
`Worker` (`LiveStep`). So `IInv`, the promise and the properties of the journal hold
however long the clock goes on (`LongRunInductive`, `LongRunKeepsPromise`,
`LongRunIsSafe`). That `Rebase` also leaves the program's decisions alone is
`OriginIsInvisible` and `TransitionsMoveWithOrigin`: for a clock reading later than
`ClaimTimeout`, which `Rebase` waits for, every test of a stored time has the same answer
and every transition of `receipt.go` the same result, one tick earlier.

**Deliveries** (`WorkerDelivery`). Three invariants beside `IInv`:

- `AuditInv`: one worker reads back one version, and once a path was audited nobody is
  left to read back its terminal receipt;
- `OrderInv`: a receipt of a message, or a write that may still make one, is at a row
  whose predecessors are delivered, and a worker has delivered all rows before its own.
  Delivered receipts are terminal, so this never becomes false;
- `DueInv`: no retry is scheduled further away than `MaxDelay`, so the clamp of
  `boundedDelay` never shortens a hold; a claim of a retry whose ETag is still current
  was decided when the retry was due; and no clock reading is ahead of the clock.

**Publisher** (`PublisherSafety`). `PlanInv`: a run at some step of its plan has stored,
with its own contents, every blob of the steps before, and has sent every message
before the one it is at; a late upload creates an immutable blob, or would put a higher
version over the current manifest if its ETag is still current. Lemmas about
`buildBatches` (`BatchRows`, `BatchesApart`, `BatchesCover`) say that the batches of a
plan partition the cohort. Disjointness across runs needs one more step: a run that
sends batch *j* has found its own batch *i < j* stored, so two runs of an operation
agree on all batches up to the smaller of two indices (`PlansAgree`, `RowsApart`).
`RowsStayInOrder` follows from the order of the cohort. `RunsEnd`: the steps of a run have
a number (`Position`) that only grows, up to three per batch and twelve.

**Worker process** (`RuntimeSafety`). `DeliveryInv`: who still runs and who has reported
(`Handover`); a context cancelled before the end of the work means that the renewer
reports an error (`CutFollowed`); the lock lasts for the rest of the interval, the
renewal and the settlement (`LockLasts`); the budget that is gone is at most the calls
to the provider and the hold (`BudgetLasts`). `WaitsEnd` takes from it that a stop, or the
cancellation of a delivery's context, wakes somebody: after it one of the two goroutines
is ready at every moment until the delivery or the process has ended.

**Download** (`DownloadSafety`). `StreamInv`: the selection is the one `Select` made of the
metadata read; what is written and what remains make it up; an open segment is of its
version; an answer without the headers has no byte and is not partial; a resumption asks
for what follows the client's bytes. That the length a client waits for is that of its
version needs a second invariant, `SizesAgree`: the size the handler read, the length the
client was promised and the object agree wherever their ETags do (`SizesInductive`).
`SelectedIsMeant` shows for every header and size that `Select` computes what `Meaning`
says. `ResponsesEnd` and
`ResponsesStand` are about the steps of the handler: what remains to be sent gets
shorter with every copy that does not end the response, and the status line and the
bytes once written stand. `CalmIsDownload` carries all of this over to the specification
whose progress is checked.

**Composition** (`DistributionSafety`). `SystemInv` is `PlanInv` and: runs and messages
stand for merged commits, receipts for rows of messages. `SystemPublishes` shows that
the composition implements `Publisher`, so its theorems carry over, and the properties
follow from them. `StagesAgree` also needs that `ParseRecipients` puts any accepted file
in strict order (`CanBeSorted`: order positions by how many addresses are below).

Induction over numbers is used once (`Increasing`: a sequence that grows from each
element to the next grows from any to any later one) and goes through the least
counterexample (`LeastNatural`), because the provers cannot instantiate the
library's induction rules.

Not in a run of their own: `WritesBounded`, `DeliveriesAdvance`, `RowsIncrease`,
`RunsAdvance`, `NoIdleWait`, `StreamsAdvance` and `SentStays` were tried with TLC on the
instances of the runs before they were proved; the runs do not repeat them. `Kept` and
`Irrevocable` are only proved. Those about steps that go forward are the half of
progress that needs no fairness: nothing goes round. That the next step is taken is the
other half.

Only model-checked: progress (`EverySettled`, `StaleSendEnds`, `ContentionEnds`,
`DeliveryEnds`, `StopEnds`, `DownloadCompletes`, `ReplayCompletes`), since the prover
handles neither fairness nor ENABLED. That `validateReleaseZIP` sums sizes correctly is
a fold over a set, of which the provers know nothing; no theorem depends on
what it computes.

## Not modelled

- Configuration, strict JSON, canonical encodings, identity validation and mail
  payloads: sequential checks of single values, without state and without a second
  party that has to agree.
- The second look at the local release file before it is uploaded
  (`verifySourceArtifact`): the checkout of a pipeline run does not change under it.
- Requests of the download app that are refused before storage is asked, and the
  health endpoints.
- Construction of clients at start-up: it fails before anything happens.
- A change of the HMAC key, see above.
- The mail stub: a test double; the provider of the model answers in every way.

## Plan

1. A bound on how long a delivery of `Runtime` can take. `WaitsEnd` shows that it cannot
   hang after a cancellation, and TLC that it ends (`DeliveryEnds`) on one instance; the
   number of ticks is not stated.
2. `Worker` with the rows that `Publisher` sends, in place of constant batches. The
   composition has the promise of `Effect` there, which `WorkerRefinement` proves, and
   `DistinctRows` is `RowsStayInOrder`; only the step between the two modules is informal.
