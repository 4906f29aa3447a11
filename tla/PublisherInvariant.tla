-------------------------- MODULE PublisherInvariant --------------------------
(***************************************************************************)
(* The inductive invariant behind the safety properties of Publisher.      *)
(*                                                                         *)
(* The properties speak of messages and stored blobs; they hold because a  *)
(* run has stored every blob of its plan before it sends, because nothing  *)
(* is ever written over an immutable blob, and because a write of the      *)
(* current manifest that may still be applied is harmless when its ETag is *)
(* the one that is stored.                                                 *)
(***************************************************************************)
EXTENDS Publisher

Manifests == {Manifest(q) : q \in Requests}

RunState ==
  [pc       : {"idle", "upload", "properties", "send", "stat", "download"},
   request  : Requests \cup {NoRequest},
   step     : {"none", "identity", "dar", "manifest", "batch", "current"},
   index    : Nat,
   etag     : Nat,
   existing : Manifests \cup {[operationID |-> NoRequest]}]

\* Blobs that putImmutable writes.
Immutable(name) == name[1] # "current"

\* The blob of a step of q's plan is stored with the content of the plan.
Has(q, step, index) ==
  /\ BlobName(q, step, index) \in DOMAIN blobs
  /\ blobs[BlobName(q, step, index)].body = BlobBody(q, step, index)

HasBatches(q, n) == \A i \in 1..n : Has(q, "batch", i)

HasPlan(q) ==
  /\ Has(q, "identity", 0) /\ Has(q, "dar", 0) /\ Has(q, "manifest", 0)
  /\ HasBatches(q, batchCount(q))

\* The first n messages of q's plan are on the queue.
Announced(q, n) == \A i \in 1..n : queueRequest(q, i) \in sent

\* A manifest that may become the current one.
Announces(body) ==
  \E q \in Requests : /\ planAllowed(q)
                      /\ body = Manifest(q)
                      /\ Announced(q, batchCount(q))

(***************************************************************************)
(* A write that may still be applied: it creates an immutable blob, or it  *)
(* makes an announced manifest current, over a lower version if there is a *)
(* current manifest and the write's ETag is its ETag.                      *)
(***************************************************************************)
GoodWrite(name, body, etag) ==
  /\ etag \in Nat
  /\ IF Immutable(name)
     THEN etag = 0
     ELSE /\ Announces(body)
          /\ etag <= ETag(name)
          /\ etag > 0 /\ etag = ETag(name) =>
               blobs[name].body.releaseVersion < body.releaseVersion

(***************************************************************************)
(* Where a run is in its plan, and what it has done to get there.          *)
(***************************************************************************)
AtPlan(s) ==
  /\ s.pc = "idle" => s.step = "none"
  /\ s.pc # "idle" => s.request \in Requests /\ planAllowed(s.request)
  /\ s.pc \in {"upload", "properties"} => s.step # "none"
  /\ s.pc = "send" => s.step = "none" /\ s.index > 0
  /\ s.pc \in {"stat", "download"} => s.step = "current"
  /\ s.step = "batch" => s.index > 0
  /\ s.pc = "send" \/ s.step = "batch" => s.index <= batchCount(s.request)
  /\ s.step \in {"identity", "dar", "manifest", "current"} => s.index = 0
  /\ s.pc = "properties" \/ s.step # "current" => s.etag = 0
  /\ s.pc = "download" => s.etag > 0

Done(s) ==
  LET q == s.request
      sending == s.pc = "send"
  IN  /\ s.step \in {"dar", "manifest", "batch"} => Has(q, "identity", 0)
      /\ s.step \in {"manifest", "batch"} => Has(q, "dar", 0)
      /\ s.step = "batch" => Has(q, "manifest", 0) /\ HasBatches(q, s.index - 1)
      /\ sending \/ s.step = "current" => HasPlan(q)
      /\ sending => Announced(q, s.index - 1)
      /\ s.step = "current" => Announced(q, batchCount(q))

GoodRun(s) ==
  LET name == BlobName(s.request, s.step, s.index)
      body == BlobBody(s.request, s.step, s.index)
  IN  /\ AtPlan(s)
      /\ Done(s)
      /\ s.pc = "upload" => GoodWrite(name, body, s.etag)
      /\ s.pc = "properties" => name \in DOMAIN blobs
      /\ s.pc = "download" => s.etag <= ETag(name)

GoodRuns ==
  /\ run \in [Publishers -> RunState]
  /\ \A p \in Publishers : GoodRun(run[p])

GoodBlobs ==
  \A n \in DOMAIN blobs :
    /\ blobs[n].etag \in Nat \ {0}
    /\ ~Immutable(n) => Announces(blobs[n].body)

GoodSent ==
  \A m \in sent : \E q \in Requests : \E i \in 1..batchCount(q) :
    planAllowed(q) /\ HasPlan(q) /\ m = queueRequest(q, i)

GoodLate == \A x \in late : GoodWrite(x.name, x.body, x.etag)

(***************************************************************************)
(* The inductive invariant: what a run in the middle of Publish, or an     *)
(* upload that may still be applied, can rely on.                          *)
(***************************************************************************)
PlanInv == GoodRuns /\ GoodBlobs /\ GoodSent /\ GoodLate

(***************************************************************************)
(* The rows of a message are in strictly increasing order, so that no row  *)
(* of a batch is repeated.                                                 *)
(***************************************************************************)
RowsIncrease ==
  \A m \in sent :
    LET rows == m.batch.body.rows IN
    \A i, j \in 1..Len(rows) : i < j => rows[i] < rows[j]

(***************************************************************************)
(* How far a run is in its plan: the blobs of the operation, one or two    *)
(* calls each, the messages, and the current manifest, four calls at most. *)
(***************************************************************************)
Position(s) ==
  LET n == batchCount(s.request)
      write == CASE s.step = "identity" -> 1
                 [] s.step = "dar"      -> 3
                 [] s.step = "manifest" -> 5
                 [] s.step = "batch"    -> 5 + 2 * s.index
                 [] s.step = "current"  -> 3 * n + 11
  IN  CASE s.pc = "idle"       -> 0
        [] s.pc = "upload"     -> write
        [] s.pc = "properties" -> write + 1
        [] s.pc = "send"       -> 2 * n + 8 + s.index
        [] s.pc = "stat"       -> 3 * n + 9
        [] s.pc = "download"   -> 3 * n + 10

(***************************************************************************)
(* Nothing in Publish is done twice: every step of a run brings it further *)
(* in the plan of its request, within a bound that depends on the number   *)
(* of its batches only, or ends it.                                        *)
(***************************************************************************)
RunsAdvance ==
  [][\A p \in Publishers :
       run'[p] # run[p] /\ run'[p].pc # "idle" =>
         /\ Position(run[p]) < Position(run'[p])
         /\ Position(run'[p]) <= 3 * batchCount(run'[p].request) + 12
         /\ run[p].pc # "idle" => run'[p].request = run[p].request]_vars
==============================================================================
