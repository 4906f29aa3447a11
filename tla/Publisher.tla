------------------------------ MODULE Publisher ------------------------------
(***************************************************************************)
(* Runs of the release publisher (internal/publication/publisher.go and    *)
(* azure.go): immutable blobs first, then one queue message per batch of   *)
(* recipients, then the current manifest of the release.                   *)
(*                                                                         *)
(* Runs may overlap, stop anywhere and be repeated, with the same input or *)
(* with another.  A step is one call to the blob store or to the queue.    *)
(* Every error makes Publish return and changes nothing more, so all error *)
(* paths are the action Stop; a call that took effect and then reported an *)
(* error is the call followed by Stop.  A digest stands for its content, a *)
(* number for the four numbers of a version and for an address, and the    *)
(* first batch has index 1 instead of 0.                                   *)
(*                                                                         *)
(* A definition named ...Slip is a plausible mistake in the one after it;  *)
(* no specification uses it.                                               *)
(***************************************************************************)
EXTENDS Contracts, Integers, FiniteSets

CONSTANTS
  Publishers,  \* publisher processes
  Requests,    \* what a run may be given: source, commit, date, cohort, batch size
  NoRequest,
  MaxLate      \* bound: uploads in flight whose caller has given up

ASSUME PublisherAssumption ==
  /\ NoRequest \notin Requests
  /\ MaxLate \in Nat
  /\ \A q \in Requests :
       /\ q.source.version \in Nat
       /\ q.recipients \in Seq(Nat)
       /\ \A i \in 1..Len(q.recipients) : RowBytes(q.recipients[i]) \in Nat
       /\ q.batchSize \in 1..10

VARIABLES
  blobs,  \* the stored blobs: a function from names to contents with an ETag
  late,   \* uploads whose caller has given up and that may still be applied
  sent,   \* the messages ever put on the queue
  run     \* the local state of each publisher

vars == <<blobs, late, sent, run>>

------------------------------------------------------------------------------
(***************************************************************************)
(* The plan of a run.                                                      *)
(***************************************************************************)
\* A digest of the commit and the source manifest.
deriveOperationID(q) == [commit |-> q.commit, source |-> q.source]

\* Recipients are in strictly increasing order of their addresses.
validRecipients(recipients) ==
  \A i \in 1..Len(recipients) :
    ParseRecipientAllowed(recipients[i]) /\ (i > 1 => recipients[i - 1] < recipients[i])

\* How many batches a cohort makes, and whether buildBatches takes as many.
batchCount(q) == (Len(q.recipients) + q.batchSize - 1) \div q.batchSize

planAllowed(q) ==
  /\ q.recipients # <<>>
  /\ validRecipients(q.recipients)
  /\ batchCount(q) \in 1 .. MaxBatches

Smaller(a, b) == IF a < b THEN a ELSE b

buildBatches(q) ==
  [i \in 1..batchCount(q) |->
     SubSeq(q.recipients, (i - 1) * q.batchSize + 1,
            Smaller(i * q.batchSize, Len(q.recipients)))]

batchRecipientCountSlip(q, index) == q.batchSize

batchRecipientCount(q, index) ==
  Smaller(q.batchSize, Len(q.recipients) - (index - 1) * q.batchSize)

Manifest(q) ==
  [operationID    |-> deriveOperationID(q),
   releaseVersion |-> q.source.version,
   dar            |-> q.source.dar,
   publishedAt    |-> q.createdAt]

\* The identity of a release depends on the operation.
BlobNameSlip(q, step, index) ==
  CASE step = "identity" -> <<"release-identities", q.source.release, deriveOperationID(q)>>
    [] step = "dar"      -> <<"releases", q.source.version>>
    [] step = "manifest" -> <<"published", q.source.release, deriveOperationID(q)>>
    [] step = "batch"    -> <<"batches", deriveOperationID(q), index>>
    [] step = "current"  -> <<"current", q.source.release>>

\* The blob a step of the run writes, and what it writes there.
BlobName(q, step, index) ==
  CASE step = "identity" -> <<"release-identities", q.source.release, q.source.version>>
    [] step = "dar"      -> <<"releases", q.source.version>>
    [] step = "manifest" -> <<"published", q.source.release, deriveOperationID(q)>>
    [] step = "batch"    -> <<"batches", deriveOperationID(q), index>>
    [] step = "current"  -> <<"current", q.source.release>>

BlobBody(q, step, index) ==
  CASE step = "identity"              -> [operationID |-> deriveOperationID(q)]
    [] step = "dar"                   -> [sha256 |-> q.source.dar]
    [] step \in {"manifest", "current"} -> Manifest(q)
    [] step = "batch"                 -> [rows |-> buildBatches(q)[index]]

BlobReference(q, step, index) ==
  [name |-> BlobName(q, step, index), body |-> BlobBody(q, step, index)]

queueRequest(q, index) ==
  [messageID      |-> <<deriveOperationID(q), index>>,
   operationID    |-> deriveOperationID(q),
   releaseVersion |-> q.source.version,
   index          |-> index,
   batchCount     |-> batchCount(q),
   manifest       |-> BlobReference(q, "manifest", 0),
   batch          |-> BlobReference(q, "batch", index),
   recipientCount |-> batchRecipientCount(q, index)]

------------------------------------------------------------------------------
(***************************************************************************)
(* The blob store.  An ETag counts the writes of a blob; 0 means that the  *)
(* blob is absent, and as a condition If-None-Match: *.                    *)
(***************************************************************************)
ETag(name) == IF name \in DOMAIN blobs THEN blobs[name].etag ELSE 0

\* If-Match is not sent.
ConditionHoldsSlip(name, etag) == etag = 0 => ETag(name) = 0

ConditionHolds(name, etag) == ETag(name) = etag

Store(name, body) ==
  blobs' = [n \in DOMAIN blobs \cup {name} |->
              IF n = name THEN [body |-> body, etag |-> ETag(name) + 1] ELSE blobs[n]]

------------------------------------------------------------------------------
Idle == [pc |-> "idle", request |-> NoRequest, step |-> "none", index |-> 0,
         etag |-> 0, existing |-> [operationID |-> NoRequest]]

Init ==
  /\ blobs = << >>
  /\ late = {}
  /\ sent = {}
  /\ run = [p \in Publishers |-> Idle]

Become(p, state) == run' = [run EXCEPT ![p] = state]

At(p, pc, step, index) ==
  [Idle EXCEPT !.pc = pc, !.request = run[p].request, !.step = step, !.index = index]

Name(p) == BlobName(run[p].request, run[p].step, run[p].index)

Body(p) == BlobBody(run[p].request, run[p].step, run[p].index)

BatchCount(p) == batchCount(run[p].request)

\* Publish, its plan accepted.
Publish(p, q) ==
  /\ run[p].pc = "idle"
  /\ planAllowed(q)
  /\ Become(p, [Idle EXCEPT !.pc = "upload", !.request = q, !.step = "identity"])
  /\ UNCHANGED <<blobs, late, sent>>

\* The current manifest is advanced as soon as every blob is stored.
AfterBatchesSlip(p) == At(p, "stat", "current", 0)

\* What follows the last batch blob: the first message.
AfterBatches(p) == At(p, "send", "none", 1)

\* One batch too many.
AfterBatchSlip(p) ==
  IF run[p].index <= BatchCount(p)
  THEN At(p, "upload", "batch", run[p].index + 1)
  ELSE AfterBatches(p)

AfterBatch(p) ==
  IF run[p].index < BatchCount(p)
  THEN At(p, "upload", "batch", run[p].index + 1)
  ELSE AfterBatches(p)

\* The blob of the present step is stored.
Published(p) ==
  CASE run[p].step = "identity" -> At(p, "upload", "dar", 0)
    [] run[p].step = "dar"      -> At(p, "upload", "manifest", 0)
    [] run[p].step = "manifest" -> At(p, "upload", "batch", 1)
    [] run[p].step = "batch"    -> AfterBatch(p)
    [] run[p].step = "current"  -> Idle

\* A blob that exists already is an error.
ConflictedSlip(p) == Idle

(***************************************************************************)
(* The store answers that the condition failed.  putImmutable then looks   *)
(* at what is stored; a replacement of the current manifest gives up.      *)
(***************************************************************************)
Conflicted(p) ==
  IF run[p].etag = 0 THEN [run[p] EXCEPT !.pc = "properties"] ELSE Idle

Upload(p) ==
  LET write == [name |-> Name(p), body |-> Body(p), etag |-> run[p].etag] IN
  /\ run[p].pc = "upload"
  /\ \/ /\ ConditionHolds(Name(p), run[p].etag)
        /\ Store(Name(p), Body(p))
        \* the client library may repeat an upload and meet its own write
        /\ Become(p, Published(p)) \/ Become(p, Conflicted(p))
        /\ UNCHANGED late
     \/ /\ ~ConditionHolds(Name(p), run[p].etag)
        /\ Become(p, Conflicted(p))
        /\ UNCHANGED <<blobs, late>>
     \/ /\ Cardinality(late) < MaxLate
        /\ late' = late \cup {write}
        /\ Become(p, Idle)
        /\ UNCHANGED blobs
  /\ UNCHANGED sent

\* An upload whose caller has given up reaches the store.
LateUpload ==
  \E write \in late :
    /\ late' = late \ {write}
    /\ IF ConditionHolds(write.name, write.etag)
       THEN Store(write.name, write.body)
       ELSE UNCHANGED blobs
    /\ UNCHANGED <<sent, run>>

\* Whatever is stored under the name is taken for the blob.
SameBlobSlip(p) == TRUE

SameBlob(p) == blobs[Name(p)].body = Body(p)

\* putImmutable met an existing blob: the same digest and size will do.
Properties(p) ==
  /\ run[p].pc = "properties"
  /\ Become(p, IF SameBlob(p) THEN Published(p) ELSE Idle)
  /\ UNCHANGED <<blobs, late, sent>>

\* The queue takes a message; sending the same one again changes nothing here.
SendMessage(message) == sent' = sent \cup {message}

enqueueBatches(p) ==
  /\ run[p].pc = "send"
  /\ ParseQueueMessageAllowed(queueRequest(run[p].request, run[p].index))
  /\ SendMessage(queueRequest(run[p].request, run[p].index))
  /\ Become(p, IF run[p].index < BatchCount(p)
               THEN At(p, "send", "none", run[p].index + 1)
               ELSE At(p, "stat", "current", 0))
  /\ UNCHANGED <<blobs, late>>

(***************************************************************************)
(* PutCurrentManifest: the properties and the body of the current manifest *)
(* are read by two calls, and the body must have the digest the properties *)
(* named.  A first manifest is written like an immutable blob, a later one *)
(* only over a lower version and under the ETag of the properties.         *)
(***************************************************************************)
StatCurrent(p) ==
  /\ run[p].pc = "stat"
  /\ Become(p, IF Name(p) \in DOMAIN blobs
               THEN [At(p, "download", "current", 0)
                       EXCEPT !.etag = blobs[Name(p)].etag, !.existing = blobs[Name(p)].body]
               ELSE At(p, "upload", "current", 0))
  /\ UNCHANGED <<blobs, late, sent>>

\* The body read now is the one whose properties were read before.
downloadCurrentAllowed(p) == blobs[Name(p)].body = run[p].existing

\* The four numbers of a version are compared in order.
versionKeyLess(left, right) == left < right

DownloadCurrent(p) ==
  LET existing == blobs[Name(p)].body IN
  /\ run[p].pc = "download"
  /\ Become(p, IF /\ downloadCurrentAllowed(p)
                  /\ existing # Body(p)
                  /\ versionKeyLess(existing.releaseVersion, run[p].request.source.version)
               THEN [run[p] EXCEPT !.pc = "upload"]
               ELSE Idle)
  /\ UNCHANGED <<blobs, late, sent>>

\* The run ends early: a call failed, or the process died.
Stop(p) ==
  /\ run[p].pc # "idle"
  /\ Become(p, Idle)
  /\ UNCHANGED <<blobs, late, sent>>

Step(p) ==
  \/ \E q \in Requests : Publish(p, q)
  \/ Upload(p)
  \/ Properties(p)
  \/ enqueueBatches(p)
  \/ StatCurrent(p)
  \/ DownloadCurrent(p)
  \/ Stop(p)

Next == (\E p \in Publishers : Step(p)) \/ LateUpload

Spec == Init /\ [][Next]_vars

------------------------------------------------------------------------------
Rows(m) == {m.batch.body.rows[i] : i \in 1..Len(m.batch.body.rows)}

Operations == {deriveOperationID(q) : q \in Requests}

\* A run is at a step of its request, on one of its batches, and ETags count writes.
TypeOK ==
  /\ \A n \in DOMAIN blobs : blobs[n].etag \in Nat \ {0}
  /\ \A x \in late : x.etag \in Nat
  /\ \A m \in sent : m.operationID \in Operations /\ m.index \in Nat \ {0}
  /\ DOMAIN run = Publishers
  /\ \A p \in Publishers :
       /\ run[p].pc \in {"idle", "upload", "properties", "send", "stat", "download"}
       /\ run[p].step \in {"none", "identity", "dar", "manifest", "batch", "current"}
       /\ run[p].etag \in Nat
       /\ run[p].pc # "idle" =>
            /\ run[p].request \in Requests
            /\ run[p].index \in 0..BatchCount(p)
            /\ run[p].pc = "send" \/ run[p].step = "batch" => run[p].index > 0

(***************************************************************************)
(* A message never runs ahead of what it names: whatever is on the queue,  *)
(* the worker finds the manifest and the batch it refers to, with the      *)
(* digests it names and as many rows as it announces, and the release file *)
(* the manifest names is stored (publisher.go, Publish).                   *)
(***************************************************************************)
MessageIsServable ==
  \A m \in sent :
    /\ \A reference \in {m.manifest, m.batch} :
         /\ reference.name \in DOMAIN blobs
         /\ blobs[reference.name].body = reference.body
    /\ m.manifest.body.operationID = m.operationID
    /\ Len(m.batch.body.rows) = m.recipientCount
    /\ LET dar == <<"releases", m.manifest.body.releaseVersion>> IN
         dar \in DOMAIN blobs /\ blobs[dar].body.sha256 = m.manifest.body.dar

(***************************************************************************)
(* No recipient is in two batches of an operation, even if runs of it were *)
(* given different cohorts or batch sizes; this is what makes a receipt of *)
(* the worker belong to one message (worker.go, receiptMatches).           *)
(***************************************************************************)
BatchesDisjoint ==
  \A m, n \in sent :
    m.operationID = n.operationID /\ Rows(m) \cap Rows(n) # {} => m.index = n.index

(***************************************************************************)
(* A version of a release is announced for one commit and one artifact     *)
(* only: the identity blob stops any other run before its first message.   *)
(***************************************************************************)
OneIntentPerVersion ==
  \A m, n \in sent :
    LET s == m.operationID.source
        t == n.operationID.source
    IN  s.release = t.release /\ s.version = t.version => m.operationID = n.operationID

(***************************************************************************)
(* The current manifest is advanced only after every batch was sent: all   *)
(* recipients of some run of its operation have a message.                 *)
(***************************************************************************)
CurrentAnnouncesQueued ==
  \A name \in DOMAIN blobs : name[1] = "current" =>
    LET operation == blobs[name].body.operationID IN
    \E q \in Requests :
      /\ deriveOperationID(q) = operation
      /\ \A i \in 1..Len(q.recipients) : \E m \in sent :
           m.operationID = operation /\ q.recipients[i] \in Rows(m)

(***************************************************************************)
(* The current manifest only moves to higher versions, although runs read  *)
(* it in two calls, overlap, and may write late (PutCurrentManifest).      *)
(***************************************************************************)
CurrentAdvances ==
  [][\A name \in DOMAIN blobs : name[1] = "current" /\ blobs'[name] # blobs[name] =>
       blobs[name].body.releaseVersion < blobs'[name].body.releaseVersion]_vars
==============================================================================
