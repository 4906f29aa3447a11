----------------------------- MODULE Distribution -----------------------------
(***************************************************************************)
(* A release on its way from a commit to its recipients: the pipeline run  *)
(* that reads the commit and the protected file of recipients (Source),    *)
(* the publisher (Publisher), and the worker, which checks every message   *)
(* against the stored blobs (Contracts) and then takes the rows in order.  *)
(* What it does with a row is one step here: Effect says that this is one  *)
(* mail at most, and WorkerEffect that Worker does no more than that.      *)
(*                                                                         *)
(* Commits follow the release procedure: a commit is merged when the run   *)
(* of the one before has completed, and a run that failed is repeated.     *)
(* What a commit holds is free, and so is the file that a run finds, until *)
(* it settles for good.                                                    *)
(*                                                                         *)
(* A definition named ...Slip is a plausible mistake in the one after it;  *)
(* no specification uses it.                                               *)
(***************************************************************************)
EXTENDS Publisher, Source

CONSTANTS
  Trees,        \* what the releases folder of a commit may hold, by name
  Files,        \* what the protected file of recipients may hold, by name
  Addresses,    \* the addresses in those files
  BatchSize,    \* config.BatchSize
  MaxCommits    \* bound: commits

\* The inputs that loadInput accepts, as <<tree, cohort>>, and what
\* publishCommand makes of them; the date is that of the commit.
Accepted ==
  {input \in (DOMAIN Trees) \X (DOMAIN Files) : loadInputAllowed(Trees[input[1]], Files[input[2]])}

SourceTable ==
  [tree \in {input[1] : input \in Accepted} |-> DiscoverSource(Trees[tree], "dar")]

RequestTable ==
  [x \in Accepted \X (1..MaxCommits) |->
     [source     |-> SourceTable[x[1][1]],
      commit     |-> x[2],
      createdAt  |-> x[2],
      recipients |-> ParseRecipients(Files[x[1][2]]),
      batchSize  |-> BatchSize]]

\* Addresses are in order, files hold addresses, and the publisher is given
\* what loadInput accepts.
ASSUME DistributionAssumption ==
  /\ MaxCommits \in Nat
  /\ Addresses \subseteq Nat
  /\ \A cohort \in DOMAIN Files :
       LET rows == Files[cohort].rows IN
       rows \in Seq(Range(rows)) /\ \A row \in Range(rows) : row.email \in Addresses
  /\ SourceTable \in [DOMAIN SourceTable -> {q.source : q \in Requests}]
  /\ RequestTable \in [DOMAIN RequestTable -> Requests]

VARIABLES
  commits,   \* the trees merged so far; a commit is its position
  settled,   \* the file of recipients from now on, or "changing"
  receipts   \* for each path the message index, 0 if none, and the verdict

\* A path in the receipt container: an operation and an address.  The commit
\* stands for the operation, since it fixes the source.
Paths == (1..MaxCommits) \X Addresses

pipelineVars == <<commits, settled>>
systemVars == <<vars, receipts, pipelineVars>>

SystemInit ==
  /\ Init
  /\ receipts = [path \in Paths |-> [index |-> 0, status |-> "open"]]
  /\ commits = << >>
  /\ settled = "changing"

------------------------------------------------------------------------------
(***************************************************************************)
(* The pipeline.                                                           *)
(***************************************************************************)
requestOf(commit, cohort) == RequestTable[<<<<commits[commit], cohort>>, commit>>]

Current == <<"current", "dar">>

Completed(commit) ==
  Current \in DOMAIN blobs /\ blobs[Current].body.operationID.commit >= commit

\* No call fails any more, and no input changes.
calm == settled # "changing"

Merge(tree) ==
  /\ ~calm /\ Len(commits) < MaxCommits
  /\ Len(commits) > 0 => Completed(Len(commits))
  /\ commits' = Append(commits, tree)
  /\ UNCHANGED <<vars, receipts, settled>>

\* The newest commit can be completed by repeating its run: the procedure
\* has been followed (its version is higher than those before), and its
\* input is what the blobs stored or on their way for it were made of.
StepsOf(q) == ({"identity", "dar", "manifest"} \X {0}) \cup ({"batch"} \X (1..batchCount(q)))

Replayable(cohort) ==
  /\ Len(commits) > 0
  /\ <<commits[Len(commits)], cohort>> \in Accepted
  /\ LET q == requestOf(Len(commits), cohort) IN
     /\ planAllowed(q)
     /\ \A c \in 1..(Len(commits) - 1) : highest(Trees[commits[c]]).version < q.source.version
     /\ \A s \in StepsOf(q) :
          LET name == BlobName(q, s[1], s[2])
              body == BlobBody(q, s[1], s[2])
          IN  /\ name \in DOMAIN blobs => blobs[name].body = body
              /\ \A x \in late : x.name = name => x.body = body

Settle(cohort) ==
  /\ ~calm /\ Replayable(cohort)
  /\ settled' = cohort
  /\ UNCHANGED <<vars, receipts, commits>>

\* Validation and publication of a commit.  The publication stage compares
\* the digest of the file with the one that was validated: both read the
\* same file.
publishCommand(p, commit, cohort) ==
  /\ calm => cohort = settled
  /\ <<commits[commit], cohort>> \in Accepted
  /\ Publish(p, requestOf(commit, cohort))
  /\ UNCHANGED <<receipts, pipelineVars>>

\* The publisher's own steps; in calm times it does not stop in the middle
\* and leaves no upload behind.
PublisherStep(p) ==
  /\ \/ Upload(p) /\ (calm => late' \subseteq late)
     \/ Properties(p)
     \/ enqueueBatches(p)
     \/ StatCurrent(p)
     \/ DownloadCurrent(p)
     \/ ~calm /\ Stop(p)
  /\ UNCHANGED <<receipts, pipelineVars>>

LateStep == LateUpload /\ UNCHANGED <<receipts, pipelineVars>>

------------------------------------------------------------------------------
(***************************************************************************)
(* The worker.                                                             *)
(***************************************************************************)
\* ReadSmall and Verify: the exact version named, with its digest and size.
Matches(reference) ==
  reference.name \in DOMAIN blobs /\ blobs[reference.name].body = reference.body

ProcessAllowed(m) ==
  /\ ParseQueueMessageAllowed(m)
  /\ Matches(m.manifest) /\ manifestMatchesMessage(m.manifest.body, m)
  /\ Matches(m.batch) /\ validateBatch(m.batch.body.rows, m.recipientCount)

PathOf(m, i) == <<m.operationID.commit, m.batch.body.rows[i]>>

\* Rows are taken in order, and a row that was not delivered ends the batch.
ReachesRow(m, i) ==
  /\ ProcessAllowed(m)
  /\ \A j \in 1..(i - 1) : receipts[PathOf(m, j)].status = "notified"

receiptMatches(m, path) == receipts[path].index \in {0, m.index}

\* The row gets its verdict; a mail that may have been sent counts as sent.
\* The publisher reads nothing that the worker writes: what the worker does
\* in calm times it could have done before.
processRecipient(m, i) ==
  LET path == PathOf(m, i) IN
  /\ ~calm
  /\ ReachesRow(m, i)
  /\ receiptMatches(m, path)
  /\ receipts[path].status = "open"
  /\ \E status \in {"notified", "not notified"} :
       receipts' = [receipts EXCEPT ![path] = [index |-> m.index, status |-> status]]
  /\ UNCHANGED <<vars, pipelineVars>>

mailed(path) == receipts[path].status # "open"

\* MESSAGE_INVALID, REFERENCED_BLOB_INVALID or RECEIPT_CONFLICT.
Rejects(m) ==
  \/ ~ProcessAllowed(m)
  \/ \E i \in 1..Len(m.batch.body.rows) : ReachesRow(m, i) /\ ~receiptMatches(m, PathOf(m, i))

------------------------------------------------------------------------------
SystemNext ==
  \/ \E tree \in DOMAIN Trees : Merge(tree)
  \/ \E cohort \in DOMAIN Files : Settle(cohort)
  \/ \E p \in Publishers, commit \in 1..Len(commits), cohort \in DOMAIN Files :
       publishCommand(p, commit, cohort)
  \/ LateStep
  \/ \E p \in Publishers : PublisherStep(p)
  \/ \E m \in sent : \E i \in 1..Len(m.batch.body.rows) : processRecipient(m, i)

\* A publisher that can go on does, and a run that failed is repeated until
\* it succeeds, as the release procedure demands.
SystemSpec ==
  /\ SystemInit /\ [][SystemNext]_systemVars
  /\ \A p \in Publishers :
       /\ WF_systemVars(PublisherStep(p))
       /\ SF_systemVars(calm /\ Len(commits) > 0 /\ publishCommand(p, Len(commits), settled))

------------------------------------------------------------------------------
(***************************************************************************)
(* Whatever is merged, changed and repeated, a recipient is mailed about a *)
(* version of a release at most once: the identity blob keeps a version to *)
(* one operation (publishIdentity), its batches do not overlap, and the    *)
(* receipts of the worker do the rest.                                     *)
(***************************************************************************)
OneMailPerVersion ==
  \A c, d \in 1..Len(commits), r \in Addresses :
    /\ mailed(<<c, r>>) /\ mailed(<<d, r>>)
    /\ SourceTable[commits[c]].version = SourceTable[commits[d]].version
    => c = d

(***************************************************************************)
(* A link that was mailed works, now and later: the release file of that   *)
(* version is stored with the digest the operation stands for, and the     *)
(* download app serves files of its size (publishDAR before enqueueBatches,*)
(* PutImmutableFile).                                                      *)
(***************************************************************************)
MailedIsDownloadable ==
  \A path \in Paths : mailed(path) =>
    LET source == SourceTable[commits[path[1]]]
        name == <<"releases", source.version>>
    IN  /\ name \in DOMAIN blobs /\ blobs[name].body.sha256 = source.dar
        /\ source.size \in 1 .. MaxArchiveBytes

(***************************************************************************)
(* What one stage accepts the next one takes, but for three limits that    *)
(* they draw apart: loadInput does not know the longest row or the number  *)
(* of batches that plan allows, and plan allows a row that is one byte too *)
(* long for the worker's scanner (ParseRecipients, validRecipients,        *)
(* buildBatches, scanRecipientRows).                                       *)
(***************************************************************************)
OnlyLimitsFallThrough ==
  /\ \A c \in 1..Len(commits), cohort \in DOMAIN Files :
       LET q == requestOf(c, cohort) IN
       <<commits[c], cohort>> \in Accepted /\ ~planAllowed(q) =>
         \/ batchCount(q) > MaxBatches
         \/ \E i \in 1..Len(q.recipients) : RowBytes(q.recipients[i]) > MaxRowBytes
  /\ \A m \in sent : Rejects(m) => \E r \in Rows(m) : RowBytes(r) = MaxRowBytes

(***************************************************************************)
(* Repeating a failed run always gets it done, unless the procedure was    *)
(* broken: the newest commit has a higher version than the others, its     *)
(* input is acceptable, and the file is the one its stored batches were    *)
(* made of.  Then, once calls stop failing, the run advances the current   *)
(* manifest, whatever earlier runs left half done or still in flight.      *)
(***************************************************************************)
ReplayCompletes == calm ~> Completed(Len(commits))
==============================================================================
