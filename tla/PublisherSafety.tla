---------------------------- MODULE PublisherSafety ----------------------------
(***************************************************************************)
(* The safety of the publisher, for any number of runs and any requests:   *)
(* PlanInv is inductive, and the properties of Publisher follow from it.   *)
(***************************************************************************)
EXTENDS PublisherInvariant, SequenceTheorems, WellFoundedInduction, TLAPS

------------------------------------------------------------------------------
(***************************************************************************)
(* The plan: how a cohort is cut into batches.                             *)
(***************************************************************************)
\* A non-empty set of naturals has a least element: induction, as it is used here.
LEMMA LeastNatural ==
  ASSUME NEW T \in SUBSET Nat, T # {}
  PROVE  \E x \in T : \A y \in T : ~(y < x)
<1> DEFINE less == {pair \in Nat \X Nat : pair[1] < pair[2]}
<1>1. IsWellFoundedOn(less, Nat)
  BY NatLessThanWellFounded DEF OpToRel
<1>2. \E x \in T : \A y \in T : <<y, x>> \notin less
  BY <1>1, WFMin
<1>3. QED
  BY <1>2

\* A cohort in order has no address twice (validRecipients compares neighbours only).
LEMMA Increasing ==
  ASSUME NEW r \in Seq(Nat), validRecipients(r),
         NEW a \in 1..Len(r), NEW c \in 1..Len(r), a < c
  PROVE  r[a] < r[c]
<1> SUFFICES ASSUME ~(r[a] < r[c]) PROVE FALSE
  OBVIOUS
<1> DEFINE T == {n \in Nat : n \in 1..Len(r) /\ a < n /\ ~(r[a] < r[n])}
<1>1. PICK n \in T : \A y \in T : ~(y < n)
  <2>1. c \in T
    OBVIOUS
  <2>2. QED
    BY <2>1, LeastNatural
<1>2. r[n - 1] < r[n] /\ n - 1 \in 1..Len(r)
  BY DEF validRecipients
<1>3. CASE n - 1 = a
  BY <1>2, <1>3
<1>4. CASE n - 1 # a
  <2>1. r[a] < r[n - 1]
    BY <1>1, <1>2, <1>4
  <2>2. r[a] \in Nat /\ r[n - 1] \in Nat /\ r[n] \in Nat
    BY <1>2, SMTT(40)
  <2>3. QED
    BY <1>2, <2>1, <2>2
<1>5. QED
  BY <1>3, <1>4

\* What PublisherAssumption and the plan say of a request.
LEMMA RequestFacts ==
  ASSUME NEW q \in Requests
  PROVE  /\ q.recipients \in Seq(Nat) /\ Len(q.recipients) \in Nat
         /\ q.batchSize \in 1..10
         /\ batchCount(q) \in Nat
         /\ planAllowed(q) => batchCount(q) > 0
<1>1. q.recipients \in Seq(Nat) /\ Len(q.recipients) \in Nat /\ q.batchSize \in 1..10
  BY PublisherAssumption
<1>2. ASSUME NEW n \in Nat, NEW b \in 1..10 PROVE (n + b - 1) \div b \in Nat
  OBVIOUS
<1>3. batchCount(q) \in Nat
  BY <1>1, <1>2 DEF batchCount
<1>4. planAllowed(q) => batchCount(q) > 0
  BY <1>3 DEF planAllowed
<1>5. QED
  BY <1>1, <1>3, <1>4

\* Where batch i of n recipients begins and ends, for the batch sizes allowed.
LEMMA BatchBounds ==
  ASSUME NEW n \in Nat, NEW b \in 1..10, NEW i \in 1..((n + b - 1) \div b)
  PROVE  /\ (i - 1) * b \in Nat /\ i * b \in Nat
         /\ i * b = (i - 1) * b + b
         /\ (i - 1) * b < n
<1>1. i \in Nat \ {0} /\ i <= (n + b - 1) \div b
  OBVIOUS
<1>2. CASE b = 1
  BY <1>1, <1>2
<1>3. CASE b = 2
  BY <1>1, <1>3
<1>4. CASE b = 3
  BY <1>1, <1>4
<1>5. CASE b = 4
  BY <1>1, <1>5
<1>6. CASE b = 5
  BY <1>1, <1>6
<1>7. CASE b = 6
  BY <1>1, <1>7
<1>8. CASE b = 7
  BY <1>1, <1>8
<1>9. CASE b = 8
  BY <1>1, <1>9
<1>10. CASE b = 9
  BY <1>1, <1>10
<1>11. CASE b = 10
  BY <1>1, <1>11
<1>12. QED
  BY <1>2, <1>3, <1>4, <1>5, <1>6, <1>7, <1>8, <1>9, <1>10, <1>11

\* Every one of n recipients is in a batch.
LEMMA BatchOf ==
  ASSUME NEW n \in Nat, NEW b \in 1..10, NEW j \in 1..n
  PROVE  \E i \in 1..((n + b - 1) \div b) : (i - 1) * b < j /\ j <= i * b
<1> DEFINE i == ((j - 1) \div b) + 1
<1>1. i \in 1..((n + b - 1) \div b) /\ (i - 1) * b < j /\ j <= i * b
  <2>1. CASE b = 1
    BY <2>1
  <2>2. CASE b = 2
    BY <2>2
  <2>3. CASE b = 3
    BY <2>3
  <2>4. CASE b = 4
    BY <2>4
  <2>5. CASE b = 5
    BY <2>5
  <2>6. CASE b = 6
    BY <2>6
  <2>7. CASE b = 7
    BY <2>7
  <2>8. CASE b = 8
    BY <2>8
  <2>9. CASE b = 9
    BY <2>9
  <2>10. CASE b = 10
    BY <2>10
  <2>11. QED
    BY <2>1, <2>2, <2>3, <2>4, <2>5, <2>6, <2>7, <2>8, <2>9, <2>10
<1>2. QED
  BY <1>1

\* The rows of batch i are consecutive recipients of the cohort (buildBatches).
LEMMA BatchRows ==
  ASSUME NEW q \in Requests, NEW i \in 1..batchCount(q)
  PROVE  LET rows == buildBatches(q)[i]
             first == (i - 1) * q.batchSize
         IN  /\ Len(rows) = batchRecipientCount(q, i)
             /\ Len(rows) \in 1..q.batchSize
             /\ first \in Nat
             /\ first + Len(rows) <= Len(q.recipients)
             /\ first + Len(rows) < Len(q.recipients) => Len(rows) = q.batchSize
             /\ \A j \in 1..Len(rows) : rows[j] = q.recipients[first + j]
<1> DEFINE r == q.recipients
           b == q.batchSize
           n == Len(r)
           first == (i - 1) * b
<1>1. r \in Seq(Nat) /\ n \in Nat /\ b \in 1..10
  BY RequestFacts
<1>2. first \in Nat /\ i * b = first + b /\ first < n
  BY <1>1, BatchBounds DEF batchCount
<1> DEFINE count == batchRecipientCount(q, i)
           last == Smaller(i * b, n)
<1>a. count = IF b < n - first THEN b ELSE n - first
  BY DEF batchRecipientCount, Smaller
<1>b. last = IF first + b < n THEN first + b ELSE n
  BY <1>2 DEF Smaller
<1> HIDE DEF n, first, b, count, last
<1>3. /\ last \in Nat /\ last = first + count /\ first + 1 <= last /\ last <= n
      /\ count \in 1..b
      /\ first + count < n => count = b
  BY <1>1, <1>2, <1>a, <1>b
<1>4. buildBatches(q)[i] = SubSeq(r, first + 1, last)
  BY DEF buildBatches, first, n, b, last
<1>5. \A j \in (first + 1)..last : r[j] \in Nat
  BY <1>1, <1>2, <1>3 DEF n
<1>6. /\ Len(SubSeq(r, first + 1, last)) = last - first
      /\ \A j \in 1..(last - first) : SubSeq(r, first + 1, last)[j] = r[first + j]
  <2>1. first + 1 \in Int /\ last \in Int /\ first + 1 <= last
    BY <1>2, <1>3
  <2>2. /\ Len(SubSeq(r, first + 1, last)) = last - (first + 1) + 1
        /\ \A j \in 1..(last - (first + 1) + 1) :
             SubSeq(r, first + 1, last)[j] = r[first + 1 + j - 1]
    BY <1>5, <2>1, SubSeqProperties
  <2>3. last - (first + 1) + 1 = last - first /\ \A j \in Nat : first + 1 + j - 1 = first + j
    BY <1>2, <1>3
  <2>4. QED
    BY <1>2, <1>3, <2>2, <2>3
<1> DEFINE rows == buildBatches(q)[i]
<1> HIDE DEF rows
<1>7. Len(rows) = count /\ \A j \in 1..count : rows[j] = r[first + j]
  <2>1. last - first = count
    BY <1>2, <1>3
  <2>2. QED
    BY <1>4, <1>6, <2>1 DEF rows
<1>8. /\ Len(rows) = count /\ Len(rows) \in 1..b
      /\ first \in Nat
      /\ first + Len(rows) <= n
      /\ first + Len(rows) < n => Len(rows) = b
      /\ \A j \in 1..Len(rows) : rows[j] = r[first + j]
  BY <1>1, <1>2, <1>3, <1>7
<1>9. QED
  BY <1>8, Zenon DEF first, n, b, count, rows

\* No address is in two batches of one plan (buildBatches).
LEMMA BatchesApart ==
  ASSUME NEW q \in Requests, planAllowed(q),
         NEW i \in 1..batchCount(q), NEW k \in 1..batchCount(q), i < k,
         NEW j \in 1..Len(buildBatches(q)[i]), NEW l \in 1..Len(buildBatches(q)[k])
  PROVE  buildBatches(q)[i][j] # buildBatches(q)[k][l]
<1> DEFINE r == q.recipients
           b == q.batchSize
           n == Len(r)
           fi == (i - 1) * b
           fk == (k - 1) * b
           ri == buildBatches(q)[i]
           rk == buildBatches(q)[k]
<1>1. r \in Seq(Nat) /\ n \in Nat /\ b \in 1..10 /\ validRecipients(r)
  BY RequestFacts DEF planAllowed
<1>2. /\ Len(ri) \in 1..b /\ fi \in Nat /\ fi + Len(ri) <= n /\ ri[j] = r[fi + j]
      /\ Len(rk) \in 1..b /\ fk \in Nat /\ fk + Len(rk) <= n /\ rk[l] = r[fk + l]
      /\ j \in 1..Len(ri) /\ l \in 1..Len(rk)
  BY BatchRows
<1>3. fi + b <= fk
  <2>1. k - 1 >= i /\ i \in Nat /\ k \in Nat
    BY RequestFacts
  <2>2. ASSUME NEW x \in Nat, NEW y \in Nat, x <= y, NEW c \in 1..10 PROVE x * c <= y * c
    BY <2>2
  <2>3. i * b = fi + b
    BY <1>1, BatchBounds DEF batchCount
  <2>4. i * b <= fk
    <3>1. k - 1 \in Nat
      BY <2>1
    <3> HIDE DEF b
    <3>2. QED
      BY <1>1, <2>1, <2>2, <3>1
  <2>5. QED
    BY <2>3, <2>4
<1> HIDE DEF n, fi, fk, ri, rk, b
<1>4. fi + j \in 1..n /\ fk + l \in 1..n /\ fi + j < fk + l
  <2>1. /\ fi \in Nat /\ fk \in Nat /\ n \in Nat /\ b \in Nat
        /\ j \in Nat \ {0} /\ l \in Nat \ {0}
    BY <1>1, <1>2, SMTT(40)
  <2>2. j <= b /\ fi + j <= n /\ fk + l <= n
    <3>1. Len(ri) \in Nat /\ Len(rk) \in Nat /\ j <= Len(ri) /\ l <= Len(rk)
      BY <1>2
    <3>2. QED
      BY <1>2, <2>1, <3>1
  <2>3. QED
    BY <1>3, <2>1, <2>2
<1>5. r[fi + j] < r[fk + l] /\ r[fi + j] \in Nat
  BY <1>1, <1>4, Increasing, SMTT(40) DEF n
<1>6. QED
  BY <1>2, <1>5 DEF ri, rk

\* The rows of a batch are in the order of the cohort (buildBatches).
LEMMA BatchIncreases ==
  ASSUME NEW q \in Requests, planAllowed(q), NEW i \in 1..batchCount(q),
         NEW j \in 1..Len(buildBatches(q)[i]), NEW l \in 1..Len(buildBatches(q)[i]), j < l
  PROVE  buildBatches(q)[i][j] < buildBatches(q)[i][l]
<1> DEFINE r == q.recipients
           b == q.batchSize
           n == Len(r)
           first == (i - 1) * b
           rows == buildBatches(q)[i]
<1>1. r \in Seq(Nat) /\ n \in Nat /\ validRecipients(r)
  BY RequestFacts DEF planAllowed
<1>2. /\ Len(rows) \in 1..b /\ first \in Nat /\ first + Len(rows) <= n
      /\ rows[j] = r[first + j] /\ rows[l] = r[first + l]
      /\ j \in 1..Len(rows) /\ l \in 1..Len(rows)
  BY BatchRows
<1> HIDE DEF n, first, rows, b
<1>3. first + j \in 1..n /\ first + l \in 1..n /\ first + j < first + l
  <2>1. Len(rows) \in Nat /\ j \in Nat \ {0} /\ l \in Nat \ {0} /\ j <= Len(rows) /\ l <= Len(rows)
    BY <1>2
  <2>2. QED
    BY <1>1, <1>2, <2>1
<1>4. r[first + j] < r[first + l]
  BY <1>1, <1>3, Increasing DEF n
<1>5. QED
  BY <1>2, <1>4 DEF rows

\* Every address of the cohort is in a batch (buildBatches).
LEMMA BatchesCover ==
  ASSUME NEW q \in Requests, NEW j \in 1..Len(q.recipients)
  PROVE  \E i \in 1..batchCount(q) : \E l \in 1..Len(buildBatches(q)[i]) :
           buildBatches(q)[i][l] = q.recipients[j]
<1> DEFINE b == q.batchSize
           n == Len(q.recipients)
<1>1. n \in Nat /\ b \in 1..10
  BY RequestFacts
<1>2. PICK i \in 1..batchCount(q) : (i - 1) * b < j /\ j <= i * b
  BY <1>1, BatchOf DEF batchCount
<1> DEFINE first == (i - 1) * b
           rows == buildBatches(q)[i]
<1>3. first < j /\ j <= first + b
  BY <1>1, <1>2, BatchBounds DEF batchCount
<1>4. /\ Len(rows) \in 1..b /\ first \in Nat
      /\ first + Len(rows) <= n
      /\ first + Len(rows) < n => Len(rows) = b
      /\ \A l \in 1..Len(rows) : rows[l] = q.recipients[first + l]
  BY BatchRows
<1> HIDE DEF b, n, first, rows
<1>5. j - first \in 1..Len(rows) /\ first + (j - first) = j
  BY <1>1, <1>3, <1>4 DEF n
<1>6. rows[j - first] = q.recipients[j]
  BY <1>4, <1>5
<1>7. QED
  BY <1>5, <1>6 DEF rows

------------------------------------------------------------------------------
(***************************************************************************)
(* What a step may do to the store and to the queue.                       *)
(***************************************************************************)
\* Messages stay, and a stored blob stays as it is unless it is a current
\* manifest, which gets a new ETag.
Grows ==
  /\ sent \subseteq sent'
  /\ \A n \in DOMAIN blobs' : blobs'[n].etag \in Nat \ {0}
  /\ \A n \in DOMAIN blobs :
       /\ n \in DOMAIN blobs'
       /\ \/ blobs'[n] = blobs[n]
          \/ ~Immutable(n) /\ blobs'[n].etag = blobs[n].etag + 1

\* The names of a plan: only the last is not immutable (BlobName).
LEMMA Names ==
  ASSUME NEW q, NEW index
  PROVE  /\ \A step \in {"identity", "dar", "manifest", "batch"} :
              Immutable(BlobName(q, step, index))
         /\ ~Immutable(BlobName(q, "current", index))
         /\ BlobBody(q, "current", index) = Manifest(q)
         /\ BlobBody(q, "manifest", index) = Manifest(q)
<1>1. /\ BlobName(q, "identity", index)[1] = "release-identities"
      /\ BlobName(q, "dar", index)[1] = "releases"
      /\ BlobName(q, "manifest", index)[1] = "published"
      /\ BlobName(q, "batch", index)[1] = "batches"
      /\ BlobName(q, "current", index)[1] = "current"
  BY DEF BlobName
<1>2. BlobBody(q, "current", index) = Manifest(q) /\ BlobBody(q, "manifest", index) = Manifest(q)
  BY DEF BlobBody
<1>3. QED
  BY <1>1, <1>2 DEF Immutable

\* What a run has done stays done.
LEMMA GrowsKeeps ==
  ASSUME Grows
  PROVE  /\ \A q, index : \A step \in {"identity", "dar", "manifest", "batch"} :
              Has(q, step, index) => Has(q, step, index)'
         /\ \A q, n : HasBatches(q, n) => HasBatches(q, n)'
         /\ \A q : HasPlan(q) => HasPlan(q)'
         /\ \A q, n : Announced(q, n) => Announced(q, n)'
         /\ \A body : Announces(body) => Announces(body)'
<1>1. ASSUME NEW q, NEW index, NEW step \in {"identity", "dar", "manifest", "batch"},
             Has(q, step, index)
      PROVE  Has(q, step, index)'
  BY <1>1, Names DEF Has, Grows
<1>2. ASSUME NEW q, NEW n, HasBatches(q, n) PROVE HasBatches(q, n)'
  BY <1>1, <1>2 DEF HasBatches
<1>3. ASSUME NEW q, HasPlan(q) PROVE HasPlan(q)'
  BY <1>1, <1>2, <1>3 DEF HasPlan
<1>4. ASSUME NEW q, NEW n, Announced(q, n) PROVE Announced(q, n)'
  BY <1>4 DEF Announced, Grows
<1>5. ASSUME NEW body, Announces(body) PROVE Announces(body)'
  BY <1>4, <1>5 DEF Announces
<1>6. QED
  BY <1>1, <1>2, <1>3, <1>4, <1>5

\* A pending write stays harmless.
LEMMA GrowsKeepsWrite ==
  ASSUME GoodBlobs, Grows, NEW name, NEW body, NEW etag, GoodWrite(name, body, etag)
  PROVE  GoodWrite(name, body, etag)' /\ (name \in DOMAIN blobs => name \in DOMAIN blobs')
<1>1. name \in DOMAIN blobs => name \in DOMAIN blobs'
  BY DEF Grows
<1>2. CASE Immutable(name)
  BY <1>1, <1>2 DEF GoodWrite
<1>3. CASE ~Immutable(name) /\ name \in DOMAIN blobs
  <2>1. /\ etag \in Nat /\ blobs[name].etag \in Nat /\ etag <= blobs[name].etag
        /\ etag > 0 /\ etag = blobs[name].etag =>
             blobs[name].body.releaseVersion < body.releaseVersion
        /\ ETag(name)' = blobs'[name].etag
        /\ blobs'[name] = blobs[name] \/ blobs'[name].etag = blobs[name].etag + 1
    BY <1>3 DEF GoodWrite, GoodBlobs, ETag, Grows
  <2>2. Announces(body)'
    BY <1>3, GrowsKeeps DEF GoodWrite
  <2>3. QED
    BY <1>1, <1>3, <2>1, <2>2 DEF GoodWrite
<1>4. CASE ~Immutable(name) /\ name \notin DOMAIN blobs
  <2>1. etag = 0 /\ Announces(body)'
    BY <1>4, GrowsKeeps DEF GoodWrite, ETag
  <2>2. ETag(name)' \in Nat
    BY DEF ETag, Grows
  <2>3. QED
    BY <1>1, <1>4, <2>1, <2>2 DEF GoodWrite
<1>5. QED
  BY <1>1, <1>2, <1>3, <1>4

\* So does a run, as long as it does not move.
LEMMA GrowsKeepsRun ==
  ASSUME GoodBlobs, Grows, NEW s \in RunState, GoodRun(s)
  PROVE  GoodRun(s)'
<1> DEFINE name == BlobName(s.request, s.step, s.index)
           body == BlobBody(s.request, s.step, s.index)
<1>1. Done(s)'
  BY GrowsKeeps DEF GoodRun, Done
<1>2. s.pc = "upload" => GoodWrite(name, body, s.etag)'
  BY GrowsKeepsWrite DEF GoodRun
<1>3. s.pc = "properties" => name \in DOMAIN blobs'
  BY DEF GoodRun, Grows
<1>4. ASSUME s.pc = "download" PROVE s.etag <= ETag(name)'
  <2>1. s.etag \in Nat /\ s.etag > 0 /\ s.etag <= ETag(name)
    BY <1>4 DEF GoodRun, AtPlan, RunState
  <2>2. name \in DOMAIN blobs /\ ETag(name) = blobs[name].etag
    BY <2>1 DEF ETag
  <2> HIDE DEF name
  <2>3. /\ blobs[name].etag \in Nat /\ ETag(name)' = blobs'[name].etag
        /\ blobs'[name] = blobs[name] \/ blobs'[name].etag = blobs[name].etag + 1
    BY <2>2 DEF GoodBlobs, Grows, ETag
  <2>4. QED
    BY <2>1, <2>2, <2>3
<1>5. AtPlan(s)
  BY DEF GoodRun
<1>6. QED
  BY <1>1, <1>2, <1>3, <1>4, <1>5 DEF GoodRun, AtPlan

\* The store applies a harmless write (Store).
LEMMA StoreGrows ==
  ASSUME GoodBlobs, NEW name, NEW body, NEW etag, GoodWrite(name, body, etag),
         ConditionHolds(name, etag), Store(name, body), sent \subseteq sent'
  PROVE  /\ Grows /\ GoodBlobs'
         /\ name \in DOMAIN blobs' /\ blobs'[name].body = body
<1>1. /\ DOMAIN blobs' = DOMAIN blobs \cup {name}
      /\ blobs'[name] = [body |-> body, etag |-> ETag(name) + 1]
      /\ \A n \in DOMAIN blobs : n # name => blobs'[n] = blobs[n]
  BY DEF Store
<1>2. ETag(name) \in Nat /\ blobs'[name].body = body /\ blobs'[name].etag = ETag(name) + 1
  BY <1>1 DEF ETag, GoodBlobs
<1>3. name \in DOMAIN blobs => ~Immutable(name) /\ blobs'[name].etag = blobs[name].etag + 1
  BY <1>2 DEF GoodBlobs, GoodWrite, ConditionHolds, ETag
<1>4. \A n \in DOMAIN blobs' : blobs'[n].etag \in Nat \ {0}
  BY <1>1, <1>2 DEF GoodBlobs
<1>5. Grows
  BY <1>1, <1>3, <1>4 DEF Grows
<1>6. ASSUME NEW n \in DOMAIN blobs', ~Immutable(n) PROVE Announces(blobs[n].body)'
  <2>1. CASE n = name
    BY <1>2, <1>5, <1>6, <2>1, GrowsKeeps DEF GoodWrite
  <2>2. CASE n # name
    BY <1>1, <1>5, <1>6, <2>2, GrowsKeeps DEF GoodBlobs
  <2>3. QED
    BY <2>1, <2>2
<1>7. GoodBlobs'
  BY <1>4, <1>6 DEF GoodBlobs, Immutable
<1>8. QED
  BY <1>1, <1>2, <1>5, <1>7

\* A step that writes no blob and takes no message back.
LEMMA SameBlobsGrow ==
  ASSUME GoodBlobs, UNCHANGED blobs, sent \subseteq sent'
  PROVE  Grows /\ GoodBlobs'
<1>1. Grows
  BY DEF Grows, GoodBlobs
<1>2. QED
  BY <1>1, GrowsKeeps DEF GoodBlobs, Immutable

\* One run moves, or none does, and the store and the queue only grow.
LEMMA RunMoves ==
  ASSUME PlanInv, Grows, GoodBlobs', GoodLate', GoodSent',
         NEW p \in Publishers, NEW s \in RunState, Become(p, s), GoodRun(s)'
  PROVE  PlanInv'
<1>1. /\ run \in [Publishers -> RunState] /\ run' = [run EXCEPT ![p] = s]
      /\ run' \in [Publishers -> RunState]
  BY DEF PlanInv, GoodRuns, Become
<1>2. ASSUME NEW v \in Publishers PROVE GoodRun(run[v])'
  <2>1. CASE v = p
    BY <1>1, <2>1
  <2>2. CASE v # p
    <3>1. run'[v] = run[v] /\ run[v] \in RunState /\ GoodRun(run[v])
      BY <1>1, <2>2 DEF PlanInv, GoodRuns
    <3>2. QED
      BY <3>1, GrowsKeepsRun DEF PlanInv
  <2>3. QED
    BY <2>1, <2>2
<1>3. QED
  BY <1>1, <1>2 DEF PlanInv, GoodRuns

\* Messages on the queue and pending uploads, when no new one appears.
LEMMA OldKeep ==
  ASSUME PlanInv, Grows
  PROVE  /\ UNCHANGED sent => GoodSent'
         /\ late' \subseteq late => GoodLate'
<1>1. UNCHANGED sent => GoodSent'
  BY GrowsKeeps DEF PlanInv, GoodSent
<1>2. late' \subseteq late => GoodLate'
  BY GrowsKeepsWrite DEF PlanInv, GoodLate
<1>3. QED
  BY <1>1, <1>2

------------------------------------------------------------------------------
(***************************************************************************)
(* Where each step takes its run.                                          *)
(***************************************************************************)
\* A run that has ended (Idle) has nothing left to rely on.
LEMMA IdleRun == Idle \in RunState /\ GoodRun(Idle) /\ GoodRun(Idle)'
<1>1. Idle \in RunState
  BY DEF Idle, RunState
<1>2. Idle.pc = "idle" /\ Idle.step = "none" /\ Idle.etag = 0
  BY DEF Idle
<1>3. QED
  BY <1>1, <1>2 DEF GoodRun, AtPlan, Done

\* The state of a run that goes on with another step of its plan (At).
LEMMA AtFields ==
  ASSUME NEW p, NEW pc, NEW step, NEW index
  PROVE  LET s == At(p, pc, step, index) IN
         /\ s.pc = pc /\ s.request = run[p].request /\ s.step = step
         /\ s.index = index /\ s.etag = 0
         /\ /\ pc \in {"idle", "upload", "properties", "send", "stat", "download"}
            /\ run[p].request \in Requests
            /\ step \in {"none", "identity", "dar", "manifest", "batch", "current"}
            /\ index \in Nat
            => s \in RunState
  BY DEF At, Idle, RunState

\* What the invariant says of a run in the middle of its plan.
LEMMA RunFacts ==
  ASSUME PlanInv, NEW p \in Publishers, run[p].pc # "idle"
  PROVE  /\ run[p] \in RunState /\ GoodRun(run[p]) /\ AtPlan(run[p]) /\ Done(run[p])
         /\ run[p].request \in Requests /\ planAllowed(run[p].request)
         /\ BatchCount(p) = batchCount(run[p].request)
         /\ BatchCount(p) \in Nat \ {0}
<1>1. run[p] \in RunState /\ GoodRun(run[p])
  BY DEF PlanInv, GoodRuns
<1>2. AtPlan(run[p]) /\ Done(run[p])
  BY <1>1 DEF GoodRun
<1>3. run[p].request \in Requests /\ planAllowed(run[p].request)
  BY <1>2 DEF AtPlan
<1>4. BatchCount(p) = batchCount(run[p].request)
  BY DEF BatchCount
<1>5. batchCount(run[p].request) \in Nat /\ batchCount(run[p].request) > 0
  BY <1>3, RequestFacts
<1> QED
  BY <1>1, <1>2, <1>3, <1>4, <1>5

(***************************************************************************)
(* The blob of the present step is stored: the run goes on with the next   *)
(* blob, the first message, or ends (Published).                           *)
(***************************************************************************)
LEMMA PublishedRun ==
  ASSUME PlanInv, Grows, NEW p \in Publishers, run[p].pc \in {"upload", "properties"},
         Name(p) \in DOMAIN blobs', blobs'[Name(p)].body = Body(p),
         NEW s, s = Published(p)
  PROVE  s \in RunState /\ GoodRun(s)'
<1> PICK q : q = run[p].request
  OBVIOUS
<1> PICK i : i = run[p].index
  OBVIOUS
<1> PICK t : t = run[p].step
  OBVIOUS
<1>1. /\ run[p] \in RunState /\ AtPlan(run[p]) /\ Done(run[p])
      /\ q \in Requests /\ planAllowed(q)
      /\ BatchCount(p) = batchCount(q) /\ batchCount(q) \in Nat \ {0}
      /\ i \in Nat
      /\ run[p].step \in {"identity", "dar", "manifest", "batch", "current"}
      /\ run[p].step \in {"identity", "dar", "manifest"} => i = 0
  BY RunFacts DEF RunState, AtPlan
<1>p. q \in Requests /\ planAllowed(q) /\ batchCount(q) \in Nat /\ 1 <= batchCount(q)
  BY <1>1
<1>2. Has(q, t, i)'
  BY DEF Has, Name, Body
<1>3. ASSUME NEW step \in {"identity", "dar", "manifest", "batch"}, NEW index
      PROVE  /\ Has(q, step, index) => Has(q, step, index)'
             /\ GoodWrite(BlobName(q, step, index), BlobBody(q, step, index), 0)'
  BY Names, GrowsKeeps DEF GoodWrite, Immutable
<1>4. CASE run[p].step = "identity"
  <2>1. s = At(p, "upload", "dar", 0)
    BY <1>4 DEF Published
  <2>2. /\ s \in RunState /\ s.pc = "upload" /\ s.request = q /\ s.step = "dar"
        /\ s.index = 0 /\ s.etag = 0
    BY <1>1, <2>1, AtFields
  <2>3. QED
    <3>1. Has(q, "identity", 0)'
      BY <1>1, <1>2, <1>4
    <3>2. AtPlan(s)'
      BY <1>p, <2>2 DEF AtPlan
    <3>3. Done(s)'
      BY <2>2, <3>1 DEF Done
    <3> QED
      BY <1>3, <2>2, <3>2, <3>3 DEF GoodRun
<1>5. CASE run[p].step = "dar"
  <2>1. s = At(p, "upload", "manifest", 0)
    BY <1>5 DEF Published
  <2>2. /\ s \in RunState /\ s.pc = "upload" /\ s.request = q /\ s.step = "manifest"
        /\ s.index = 0 /\ s.etag = 0
    BY <1>1, <2>1, AtFields
  <2>3. QED
    <3>1. Has(q, "identity", 0)' /\ Has(q, "dar", 0)'
      <4>1. Has(q, "identity", 0)
        BY <1>1, <1>5 DEF Done
      <4> QED
        BY <1>1, <1>2, <1>3, <1>5, <4>1
    <3>2. AtPlan(s)'
      BY <1>p, <2>2 DEF AtPlan
    <3>3. Done(s)'
      BY <2>2, <3>1 DEF Done
    <3> QED
      BY <1>3, <2>2, <3>2, <3>3 DEF GoodRun
<1>6. CASE run[p].step = "manifest"
  <2>1. s = At(p, "upload", "batch", 1)
    BY <1>6 DEF Published
  <2>2. /\ s \in RunState /\ s.pc = "upload" /\ s.request = q /\ s.step = "batch"
        /\ s.index = 1 /\ s.etag = 0
    BY <1>1, <2>1, AtFields
  <2>3. HasBatches(q, 0)'
    BY DEF HasBatches
  <2>4. QED
    <3>1. Has(q, "identity", 0)' /\ Has(q, "dar", 0)' /\ Has(q, "manifest", 0)'
      <4>1. Has(q, "identity", 0) /\ Has(q, "dar", 0)
        BY <1>1, <1>6 DEF Done
      <4> QED
        BY <1>1, <1>2, <1>3, <1>6, <4>1
    <3>2. AtPlan(s)'
      BY <1>p, <2>2 DEF AtPlan
    <3>3. Done(s)'
      BY <2>2, <2>3, <3>1 DEF Done
    <3> QED
      BY <1>3, <2>2, <3>2, <3>3 DEF GoodRun
<1>7. CASE run[p].step = "batch"
  <2>1. s = AfterBatch(p)
    BY <1>7 DEF Published
  <2>2. /\ i > 0 /\ i <= batchCount(q)
        /\ Has(q, "identity", 0)' /\ Has(q, "dar", 0)' /\ Has(q, "manifest", 0)'
    BY <1>1, <1>3, <1>7 DEF AtPlan, Done
  <2>3. HasBatches(q, i)'
    <3>1. HasBatches(q, i - 1)'
      BY <1>1, <1>7, GrowsKeeps DEF Done
    <3>2. QED
      BY <1>1, <1>2, <1>7, <3>1 DEF HasBatches
  <2>4. CASE i < batchCount(q)
    <3>1. s = At(p, "upload", "batch", i + 1)
      BY <1>1, <2>1, <2>4 DEF AfterBatch
    <3>2. /\ s \in RunState /\ s.pc = "upload" /\ s.request = q /\ s.step = "batch"
          /\ s.index = i + 1 /\ s.etag = 0
      BY <1>1, <3>1, AtFields
    <3>3. (i + 1) - 1 = i
      BY <1>1
    <3>4. QED
      <4>1. AtPlan(s)'
        <5>1. i + 1 > 0 /\ i + 1 <= batchCount(q)
          BY <1>1, <2>4
        <5> QED
          BY <1>p, <3>2, <5>1 DEF AtPlan
      <4>2. Done(s)'
        BY <2>2, <2>3, <3>2, <3>3 DEF Done
      <4> QED
        BY <1>3, <3>2, <4>1, <4>2 DEF GoodRun
  <2>5. CASE i = batchCount(q)
    <3>1. s = At(p, "send", "none", 1)
      BY <1>1, <2>1, <2>5 DEF AfterBatch, AfterBatches
    <3>2. /\ s \in RunState /\ s.pc = "send" /\ s.request = q /\ s.step = "none"
          /\ s.index = 1 /\ s.etag = 0
      BY <1>1, <3>1, AtFields
    <3>3. Announced(q, 0)' /\ HasPlan(q)'
      BY <2>2, <2>3, <2>5 DEF Announced, HasPlan
    <3>4. QED
      <4>1. AtPlan(s)'
        BY <1>p, <3>2 DEF AtPlan
      <4>2. Done(s)'
        BY <3>2, <3>3 DEF Done
      <4> QED
        BY <3>2, <4>1, <4>2 DEF GoodRun
  <2>6. QED
    BY <1>1, <2>2, <2>4, <2>5, SMTT(40)
<1>8. CASE run[p].step = "current"
  BY <1>8, IdleRun DEF Published
<1>9. QED
  BY <1>1, <1>4, <1>5, <1>6, <1>7, <1>8

\* The condition of the upload failed: putImmutable looks at the stored blob (Conflicted).
LEMMA ConflictedRun ==
  ASSUME PlanInv, Grows, NEW p \in Publishers, run[p].pc = "upload",
         run[p].etag = 0 => Name(p) \in DOMAIN blobs',
         NEW s, s = Conflicted(p)
  PROVE  s \in RunState /\ GoodRun(s)'
<1>1. CASE run[p].etag # 0
  BY <1>1, IdleRun DEF Conflicted
<1>2. CASE run[p].etag = 0
  <2> PICK r : r = run[p]
    OBVIOUS
  <2>1. r \in RunState /\ AtPlan(r) /\ Done(r) /\ r.pc = "upload" /\ r.etag = 0
    BY <1>2, RunFacts
  <2>2. s = [r EXCEPT !.pc = "properties"]
    BY <1>2 DEF Conflicted
  <2>3. /\ s \in RunState /\ s.pc = "properties" /\ s.request = r.request
        /\ s.step = r.step /\ s.index = r.index /\ s.etag = 0
    BY <2>1, <2>2 DEF RunState
  <2>4. AtPlan(s) /\ Done(s)'
    BY <2>1, <2>3, GrowsKeeps DEF AtPlan, Done
  <2>5. BlobName(s.request, s.step, s.index) \in DOMAIN blobs'
    BY <1>2, <2>3 DEF Name
  <2>6. QED
    BY <2>3, <2>4, <2>5 DEF GoodRun, AtPlan
<1>3. QED
  BY <1>1, <1>2

\* An upload that is applied, refused, or given up while in flight (Upload).
LEMMA UploadKeeps ==
  ASSUME PlanInv, NEW p \in Publishers, Upload(p)
  PROVE  PlanInv'
<1> PICK name : name = Name(p)
  OBVIOUS
<1> PICK body : body = Body(p)
  OBVIOUS
<1> PICK etag : etag = run[p].etag
  OBVIOUS
<1>1. /\ run[p].pc = "upload" /\ UNCHANGED sent
      /\ GoodBlobs
      /\ GoodWrite(name, body, etag)
  BY RunFacts DEF Upload, PlanInv, GoodRun, Name, Body
<1>2. CASE /\ ConditionHolds(name, etag)
           /\ Store(name, body)
           /\ Become(p, Published(p)) \/ Become(p, Conflicted(p))
           /\ UNCHANGED late
  <2>1. Grows /\ GoodBlobs' /\ name \in DOMAIN blobs' /\ blobs'[name].body = body
    BY <1>1, <1>2, StoreGrows
  <2>2. GoodSent' /\ GoodLate'
    BY <1>1, <1>2, <2>1, OldKeep
  <2>3. PICK s : Become(p, s) /\ (s = Published(p) \/ s = Conflicted(p))
    BY <1>2
  <2>4. s \in RunState /\ GoodRun(s)'
    BY <1>1, <2>1, <2>3, PublishedRun, ConflictedRun
  <2>5. QED
    BY <2>1, <2>2, <2>3, <2>4, RunMoves
<1>3. CASE /\ ~ConditionHolds(name, etag)
           /\ Become(p, Conflicted(p))
           /\ UNCHANGED <<blobs, late>>
  <2>1. Grows /\ GoodBlobs'
    BY <1>1, <1>3, SameBlobsGrow
  <2>2. GoodSent' /\ GoodLate'
    BY <1>1, <1>3, <2>1, OldKeep
  <2>3. PICK s : Become(p, s) /\ s = Conflicted(p)
    BY <1>3
  <2>4. etag = 0 => name \in DOMAIN blobs'
    BY <1>3 DEF ConditionHolds, ETag
  <2>5. s \in RunState /\ GoodRun(s)'
    BY <1>1, <2>1, <2>3, <2>4, ConflictedRun
  <2>6. QED
    BY <2>1, <2>2, <2>3, <2>5, RunMoves
<1>4. CASE /\ late' = late \cup {[name |-> name, body |-> body, etag |-> etag]}
           /\ Become(p, Idle)
           /\ UNCHANGED blobs
  <2>1. Grows /\ GoodBlobs'
    BY <1>1, <1>4, SameBlobsGrow
  <2>2. GoodSent'
    BY <1>1, <2>1, OldKeep
  <2>3. GoodLate'
    <3>1. ASSUME NEW x \in late' PROVE GoodWrite(x.name, x.body, x.etag)
      BY <1>1, <1>4 DEF PlanInv, GoodLate
    <3>2. QED
      BY <1>1, <2>1, <3>1, GrowsKeepsWrite DEF GoodLate
  <2>4. QED
    BY <1>4, <2>1, <2>2, <2>3, IdleRun, RunMoves
<1>5. QED
  BY <1>2, <1>3, <1>4 DEF Upload

\* An upload whose caller has given up (LateUpload).
LEMMA LateUploadKeeps ==
  ASSUME PlanInv, LateUpload
  PROVE  PlanInv'
<1>1. PICK x \in late :
        /\ late' = late \ {x}
        /\ IF ConditionHolds(x.name, x.etag) THEN Store(x.name, x.body) ELSE UNCHANGED blobs
        /\ UNCHANGED <<sent, run>>
  BY DEF LateUpload
<1>2. GoodWrite(x.name, x.body, x.etag) /\ GoodBlobs
  BY DEF PlanInv, GoodLate
<1>3. Grows /\ GoodBlobs'
  <2>1. CASE ConditionHolds(x.name, x.etag)
    BY <1>1, <1>2, <2>1, StoreGrows
  <2>2. CASE ~ConditionHolds(x.name, x.etag)
    BY <1>1, <1>2, <2>2, SameBlobsGrow
  <2>3. QED
    BY <2>1, <2>2
<1>4. GoodSent' /\ GoodLate'
  BY <1>1, <1>3, OldKeep
<1>5. GoodRuns'
  <2>1. ASSUME NEW v \in Publishers PROVE GoodRun(run[v])'
    <3>1. run'[v] = run[v] /\ run[v] \in RunState /\ GoodRun(run[v])
      BY <1>1 DEF PlanInv, GoodRuns
    <3>2. QED
      BY <1>2, <1>3, <3>1, GrowsKeepsRun
  <2>2. QED
    BY <1>1, <2>1 DEF PlanInv, GoodRuns
<1>6. QED
  BY <1>3, <1>4, <1>5 DEF PlanInv

\* A step of a run that touches neither the store nor the queue.
LEMMA LocalStep ==
  ASSUME PlanInv, NEW p \in Publishers, NEW s \in RunState, Become(p, s), GoodRun(s)',
         UNCHANGED <<blobs, late, sent>>
  PROVE  PlanInv'
<1>1. Grows /\ GoodBlobs'
  BY SameBlobsGrow DEF PlanInv
<1>2. QED
  BY <1>1, OldKeep, RunMoves

\* A message is sent once every blob of the plan is stored (enqueueBatches).
LEMMA EnqueueKeeps ==
  ASSUME PlanInv, NEW p \in Publishers, enqueueBatches(p)
  PROVE  PlanInv'
<1> PICK q : q = run[p].request
  OBVIOUS
<1> PICK i : i = run[p].index
  OBVIOUS
<1>1. /\ run[p].pc = "send" /\ UNCHANGED <<blobs, late>>
      /\ sent' = sent \cup {queueRequest(q, i)}
      /\ Become(p, IF i < BatchCount(p) THEN At(p, "send", "none", i + 1)
                                        ELSE At(p, "stat", "current", 0))
  BY DEF enqueueBatches, SendMessage
<1>2. /\ q \in Requests /\ planAllowed(q)
      /\ BatchCount(p) = batchCount(q) /\ batchCount(q) \in Nat \ {0}
      /\ HasPlan(q) /\ Announced(q, i - 1)
      /\ i \in Nat \ {0} /\ i <= batchCount(q)
  <2>1. /\ run[p] \in RunState /\ AtPlan(run[p]) /\ Done(run[p])
        /\ q \in Requests /\ planAllowed(q)
        /\ BatchCount(p) = batchCount(q) /\ batchCount(q) \in Nat \ {0}
    BY <1>1, RunFacts
  <2>2. HasPlan(q) /\ Announced(q, i - 1)
    BY <1>1, <2>1 DEF Done
  <2>3. i > 0 /\ i <= batchCount(q)
    BY <1>1, <2>1 DEF AtPlan
  <2>4. i \in Nat
    BY <2>1 DEF RunState
  <2> QED
    BY <2>1, <2>2, <2>3, <2>4
<1>3. Grows /\ GoodBlobs'
  BY <1>1, SameBlobsGrow DEF PlanInv
<1>4. GoodLate' /\ HasPlan(q)'
  BY <1>1, <1>2, <1>3, OldKeep, GrowsKeeps
<1>5. GoodSent'
  <2>1. ASSUME NEW m \in sent'
        PROVE  \E z \in Requests : \E j \in 1..batchCount(z) :
                 planAllowed(z) /\ HasPlan(z)' /\ m = queueRequest(z, j)
    <3>1. CASE m \in sent
      BY <1>3, <3>1, GrowsKeeps DEF PlanInv, GoodSent
    <3>2. CASE m = queueRequest(q, i)
      BY <1>2, <1>4, <3>2
    <3>3. QED
      BY <1>1, <3>1, <3>2
  <2>2. QED
    BY <2>1 DEF GoodSent
<1>6. Announced(q, i)'
  <2>1. Announced(q, i - 1)'
    BY <1>2, <1>3, GrowsKeeps
  <2>2. queueRequest(q, i) \in sent'
    BY <1>1
  <2>3. QED
    BY <1>2, <2>1, <2>2 DEF Announced
<1>7. PICK s : /\ Become(p, s)
               /\ s = IF i < BatchCount(p) THEN At(p, "send", "none", i + 1)
                                           ELSE At(p, "stat", "current", 0)
  BY <1>1
<1>8. s \in RunState /\ GoodRun(s)'
  <2>1. CASE i < batchCount(q)
    <3>1. /\ s \in RunState /\ s.pc = "send" /\ s.request = q /\ s.step = "none"
          /\ s.index = i + 1 /\ s.etag = 0
      <4>1. s = At(p, "send", "none", i + 1)
        BY <1>2, <1>7, <2>1
      <4>2. i + 1 \in Nat
        BY <1>2
      <4> QED
        BY <1>2, <4>1, <4>2, AtFields
    <3>2. (i + 1) - 1 = i /\ i + 1 > 0 /\ i + 1 <= batchCount(q)
      BY <1>2, <2>1
    <3>3. QED
      <4>1. AtPlan(s)'
        BY <1>2, <1>4, <1>6, <3>1, <3>2 DEF AtPlan
      <4>2. Done(s)'
        BY <1>2, <1>4, <1>6, <3>1, <3>2 DEF Done
      <4> QED
        BY <1>2, <1>4, <1>6, <3>1, <3>2, <4>1, <4>2 DEF GoodRun
  <2>2. CASE ~(i < batchCount(q))
    <3>1. /\ s \in RunState /\ s.pc = "stat" /\ s.request = q /\ s.step = "current"
          /\ s.index = 0 /\ s.etag = 0
      BY <1>2, <1>7, <2>2, AtFields
    <3>2. Announced(q, batchCount(q))'
      <4>1. i = batchCount(q)
        BY <1>2, <2>2
      <4>2. QED
        BY <1>6, <4>1
    <3>3. QED
      <4>1. AtPlan(s)'
        BY <1>2, <1>4, <3>1, <3>2 DEF AtPlan
      <4>2. Done(s)'
        BY <1>2, <1>4, <3>1, <3>2 DEF Done
      <4> QED
        BY <1>2, <1>4, <3>1, <3>2, <4>1, <4>2 DEF GoodRun
  <2>3. QED
    BY <2>1, <2>2
<1>9. QED
  BY <1>3, <1>4, <1>5, <1>7, <1>8, RunMoves

\* What the run of the last step relies on: its messages are sent.
LEMMA CurrentFacts ==
  ASSUME PlanInv, NEW p \in Publishers, run[p].pc \in {"stat", "download"}
  PROVE  LET q == run[p].request IN
         /\ run[p] \in RunState /\ AtPlan(run[p])
         /\ run[p].step = "current" /\ run[p].index = 0
         /\ q \in Requests /\ planAllowed(q)
         /\ HasPlan(q) /\ Announced(q, batchCount(q))
         /\ Name(p) = BlobName(q, "current", 0) /\ ~Immutable(Name(p))
         /\ Body(p) = Manifest(q) /\ Announces(Manifest(q))
  BY RunFacts, Names DEF AtPlan, Done, Name, Body, Announces

\* The first of the two reads of the current manifest (StatCurrent).
LEMMA StatKeeps ==
  ASSUME PlanInv, NEW p \in Publishers, StatCurrent(p)
  PROVE  PlanInv'
<1> PICK q : q = run[p].request
  OBVIOUS
<1> PICK name : name = Name(p)
  OBVIOUS
<1>1. run[p].pc = "stat" /\ UNCHANGED <<blobs, late, sent>>
  BY DEF StatCurrent
<1>2. /\ q \in Requests /\ planAllowed(q)
      /\ HasPlan(q) /\ Announced(q, batchCount(q))
      /\ name = BlobName(q, "current", 0) /\ ~Immutable(name)
      /\ BlobBody(q, "current", 0) = Manifest(q) /\ Announces(Manifest(q))
  BY <1>1, CurrentFacts, Names
<1>3. HasPlan(q)' /\ Announced(q, batchCount(q))' /\ Announces(Manifest(q))'
  BY <1>1, <1>2, SameBlobsGrow, GrowsKeeps DEF PlanInv
<1>4. CASE name \in DOMAIN blobs
  <2>1. PICK s : Become(p, s) /\ s = [At(p, "download", "current", 0)
                   EXCEPT !.etag = blobs[name].etag, !.existing = blobs[name].body]
    BY <1>4 DEF StatCurrent
  <2>2. blobs[name].etag \in Nat \ {0} /\ blobs[name].body \in Manifests
    BY <1>2, <1>4 DEF PlanInv, GoodBlobs, Announces, Manifests
  <2>3. /\ s \in RunState /\ s.pc = "download" /\ s.request = q /\ s.step = "current"
        /\ s.index = 0 /\ s.etag = blobs[name].etag
    BY <1>2, <2>1, <2>2 DEF At, Idle, RunState
  <2>4. s.etag <= ETag(name)'
    BY <1>1, <1>4, <2>2, <2>3 DEF ETag
  <2>5. GoodRun(s)'
    <3>1. AtPlan(s)'
      <4>1. q \in Requests /\ planAllowed(q)
        BY <1>2
      <4>2. s.etag > 0
        BY <2>2, <2>3
      <4> QED
        BY <2>3, <4>1, <4>2 DEF AtPlan
    <3>2. Done(s)'
      BY <1>3, <2>3 DEF Done
    <3> QED
      BY <1>2, <2>3, <2>4, <3>1, <3>2 DEF GoodRun
  <2>6. QED
    BY <1>1, <2>1, <2>3, <2>5, LocalStep
<1>5. CASE name \notin DOMAIN blobs
  <2>1. PICK s : Become(p, s) /\ s = At(p, "upload", "current", 0)
    BY <1>5 DEF StatCurrent
  <2>2. /\ s \in RunState /\ s.pc = "upload" /\ s.request = q /\ s.step = "current"
        /\ s.index = 0 /\ s.etag = 0
    BY <1>2, <2>1, AtFields, SMTT(30)
  <2>3. GoodWrite(name, Manifest(q), 0)'
    <3>1. ETag(name)' = 0
      BY <1>1, <1>5 DEF ETag
    <3>2. QED
      BY <1>3, <3>1, <1>2, SMTT(30) DEF GoodWrite
  <2>4. GoodRun(s)'
    <3>1. AtPlan(s)'
      <4>1. q \in Requests /\ planAllowed(q)
        BY <1>2
      <4> QED
        BY <2>2, <4>1 DEF AtPlan
    <3>2. Done(s)'
      BY <1>3, <2>2 DEF Done
    <3> QED
      BY <1>2, <2>2, <2>3, <3>1, <3>2 DEF GoodRun
  <2>5. QED
    BY <1>1, <2>1, <2>2, <2>4, LocalStep
<1>6. QED
  BY <1>4, <1>5

\* The second read, and the decision to replace what was read (DownloadCurrent).
LEMMA DownloadKeeps ==
  ASSUME PlanInv, NEW p \in Publishers, DownloadCurrent(p)
  PROVE  PlanInv'
<1> PICK r : r = run[p]
  OBVIOUS
<1> PICK q : q = r.request
  OBVIOUS
<1> PICK name : name = Name(p)
  OBVIOUS
<1>1. r.pc = "download" /\ UNCHANGED <<blobs, late, sent>>
  BY DEF DownloadCurrent
<1>2. /\ r \in RunState /\ AtPlan(r) /\ r.step = "current" /\ r.index = 0
      /\ q \in Requests /\ planAllowed(q)
      /\ HasPlan(q) /\ Announced(q, batchCount(q))
      /\ name = BlobName(q, "current", 0) /\ ~Immutable(name)
      /\ BlobBody(q, "current", 0) = Manifest(q) /\ Announces(Manifest(q))
      /\ r.etag <= ETag(name)
  BY <1>1, CurrentFacts, RunFacts, Names DEF GoodRun
<1>3. HasPlan(q)' /\ Announced(q, batchCount(q))' /\ Announces(Manifest(q))'
  BY <1>1, <1>2, SameBlobsGrow, GrowsKeeps DEF PlanInv
<1>4. CASE Become(p, Idle)
  BY <1>1, <1>4, IdleRun, LocalStep
<1>5. CASE /\ blobs[name].body.releaseVersion < q.source.version
           /\ Become(p, [r EXCEPT !.pc = "upload"])
  <2>1. PICK s : Become(p, s) /\ s = [r EXCEPT !.pc = "upload"]
    BY <1>5
  <2>2. /\ s \in RunState /\ s.pc = "upload" /\ s.request = q /\ s.step = "current"
        /\ s.index = 0 /\ s.etag = r.etag /\ r.etag \in Nat
    BY <1>2, <2>1 DEF RunState
  <2>3. GoodWrite(name, Manifest(q), r.etag)'
    <3>1. Manifest(q).releaseVersion = q.source.version
      BY DEF Manifest
    <3>2. ETag(name)' = ETag(name) /\ blobs' = blobs
      BY <1>1 DEF ETag
    <3>3. QED
      BY <1>2, <1>3, <1>5, <2>2, <3>1, <3>2 DEF GoodWrite, Immutable
  <2>4. GoodRun(s)'
    <3>1. AtPlan(s)'
      BY <1>2, <1>3, <2>2, <2>3 DEF AtPlan
    <3>2. Done(s)'
      BY <1>2, <1>3, <2>2, <2>3 DEF Done
    <3> QED
      BY <1>2, <1>3, <2>2, <2>3, <3>1, <3>2 DEF GoodRun
  <2>5. QED
    BY <1>1, <2>1, <2>2, <2>4, LocalStep
<1>6. QED
  BY <1>4, <1>5 DEF DownloadCurrent, versionKeyLess

------------------------------------------------------------------------------
\* Nothing is stored, sent or running (Init).
LEMMA PlanInit == Init => PlanInv
<1> SUFFICES ASSUME Init PROVE PlanInv
  OBVIOUS
<1>1. DOMAIN blobs = {} /\ late = {} /\ sent = {}
  BY DEF Init
<1>2. GoodBlobs /\ GoodLate /\ GoodSent
  BY <1>1 DEF GoodBlobs, GoodLate, GoodSent
<1>3. GoodRuns
  BY IdleRun DEF Init, GoodRuns
<1>4. QED
  BY <1>2, <1>3 DEF PlanInv

\* Every step keeps the invariant (Next).
LEMMA PlanStep == PlanInv /\ [Next]_vars => PlanInv'
<1> SUFFICES ASSUME PlanInv, [Next]_vars PROVE PlanInv'
  OBVIOUS
<1>1. ASSUME NEW p \in Publishers, NEW q \in Requests, Publish(p, q) PROVE PlanInv'
  <2>1. PICK s : /\ Become(p, s)
                 /\ s = [Idle EXCEPT !.pc = "upload", !.request = q, !.step = "identity"]
    BY <1>1 DEF Publish
  <2>2. /\ s \in RunState /\ s.pc = "upload" /\ s.request = q /\ s.step = "identity"
        /\ s.index = 0 /\ s.etag = 0
    BY <2>1 DEF Idle, RunState
  <2>3. planAllowed(q) /\ UNCHANGED <<blobs, late, sent>>
    BY <1>1 DEF Publish
  <2>4. GoodWrite(BlobName(q, "identity", 0), BlobBody(q, "identity", 0), 0)'
    BY Names DEF GoodWrite, Immutable
  <2>5. GoodRun(s)'
    <3>1. AtPlan(s)'
      BY <2>2, <2>3, <2>4 DEF AtPlan
    <3>2. Done(s)'
      BY <2>2, <2>3, <2>4 DEF Done
    <3> QED
      BY <2>2, <2>3, <2>4, <3>1, <3>2 DEF GoodRun
  <2>6. QED
    BY <2>1, <2>2, <2>3, <2>5, LocalStep
<1>2. ASSUME NEW p \in Publishers, Upload(p) PROVE PlanInv'
  BY <1>2, UploadKeeps
<1>3. ASSUME NEW p \in Publishers, Properties(p) PROVE PlanInv'
  <2>1. run[p].pc = "properties" /\ UNCHANGED <<blobs, late, sent>>
    BY <1>3 DEF Properties
  <2>2. CASE Become(p, Idle)
    BY <2>1, <2>2, IdleRun, LocalStep
  <2>3. CASE SameBlob(p) /\ Become(p, Published(p))
    <3>1. PICK s : Become(p, s) /\ s = Published(p)
      BY <2>3
    <3>2. Name(p) \in DOMAIN blobs' /\ blobs'[Name(p)].body = Body(p)
      BY <2>1, <2>3, RunFacts DEF GoodRun, Name, SameBlob
    <3>3. Grows
      BY <2>1, SameBlobsGrow DEF PlanInv
    <3>4. QED
      BY <2>1, <3>1, <3>2, <3>3, PublishedRun, LocalStep
  <2>4. QED
    BY <1>3, <2>2, <2>3 DEF Properties
<1>4. ASSUME NEW p \in Publishers, enqueueBatches(p) PROVE PlanInv'
  BY <1>4, EnqueueKeeps
<1>5. ASSUME NEW p \in Publishers, StatCurrent(p) PROVE PlanInv'
  BY <1>5, StatKeeps
<1>6. ASSUME NEW p \in Publishers, DownloadCurrent(p) PROVE PlanInv'
  BY <1>6, DownloadKeeps
<1>7. ASSUME NEW p \in Publishers, Stop(p) PROVE PlanInv'
  BY <1>7, IdleRun, LocalStep DEF Stop
<1>8. CASE LateUpload
  BY <1>8, LateUploadKeeps
<1>9. CASE UNCHANGED vars
  <2>1. Grows /\ GoodBlobs' /\ UNCHANGED <<late, sent, run>>
    BY <1>9, SameBlobsGrow DEF vars, PlanInv
  <2>2. ASSUME NEW v \in Publishers PROVE GoodRun(run[v])'
    <3>1. run'[v] = run[v] /\ run[v] \in RunState /\ GoodRun(run[v])
      BY <2>1 DEF PlanInv, GoodRuns
    <3>2. QED
      BY <2>1, <3>1, GrowsKeepsRun DEF PlanInv
  <2>3. GoodRuns'
    BY <2>1, <2>2 DEF PlanInv, GoodRuns
  <2>4. QED
    BY <2>1, <2>3, OldKeep DEF PlanInv
<1>10. QED
  BY <1>1, <1>2, <1>3, <1>4, <1>5, <1>6, <1>7, <1>8, <1>9 DEF Next, Step

(***************************************************************************)
(* The inductive invariant of the publisher holds in every reachable state.*)
(***************************************************************************)
THEOREM PlanInductive == Spec => []PlanInv
  BY PlanInit, PlanStep, PTL DEF Spec

(***************************************************************************)
(* Every run is at a step of an accepted plan, on one of its batches, and  *)
(* ETags count writes.                                                     *)
(***************************************************************************)
THEOREM PublisherTypes == Spec => []TypeOK
<1>1. PlanInv => TypeOK
  <2> SUFFICES ASSUME PlanInv PROVE TypeOK
    OBVIOUS
  <2>1. \A n \in DOMAIN blobs : blobs[n].etag \in Nat \ {0}
    BY DEF PlanInv, GoodBlobs
  <2>2. \A x \in late : x.etag \in Nat
    BY DEF PlanInv, GoodLate, GoodWrite
  <2>3. \A m \in sent : m.operationID \in Operations /\ m.index \in Nat \ {0}
    <3>1. ASSUME NEW q \in Requests, NEW i \in 1..batchCount(q)
          PROVE  /\ queueRequest(q, i).operationID \in Operations
                 /\ queueRequest(q, i).index \in Nat \ {0}
      BY RequestFacts DEF queueRequest, Operations
    <3>2. QED
      BY <3>1 DEF PlanInv, GoodSent
  <2>4. run \in [Publishers -> RunState]
    BY DEF PlanInv, GoodRuns
  <2>5. ASSUME NEW p \in Publishers, run[p].pc # "idle"
        PROVE  /\ run[p].request \in Requests
               /\ run[p].index \in 0..BatchCount(p)
               /\ run[p].pc = "send" \/ run[p].step = "batch" => run[p].index > 0
    <3>1. /\ run[p] \in RunState /\ AtPlan(run[p])
          /\ run[p].request \in Requests
          /\ BatchCount(p) = batchCount(run[p].request) /\ BatchCount(p) \in Nat \ {0}
      BY <2>5, RunFacts
    <3>2. run[p].index \in Nat /\ run[p].index <= BatchCount(p)
      BY <2>5, <3>1 DEF RunState, AtPlan
    <3>3. QED
      BY <3>1, <3>2 DEF AtPlan
  <2>6. QED
    BY <2>1, <2>2, <2>3, <2>4, <2>5 DEF TypeOK, RunState
<1>2. QED
  BY <1>1, PlanInductive, PTL

\* m is message i of the stored plan q.
FromPlan(m, q, i) ==
  /\ planAllowed(q) /\ HasPlan(q)
  /\ i \in 1..batchCount(q)
  /\ m = queueRequest(q, i)

\* Every message is of a stored plan (enqueueBatches).
LEMMA SentFrom ==
  ASSUME PlanInv, NEW m \in sent
  PROVE  \E q \in Requests, i \in Nat : FromPlan(m, q, i)
<1>1. PICK q \in Requests : \E i \in 1..batchCount(q) :
        planAllowed(q) /\ HasPlan(q) /\ m = queueRequest(q, i)
  BY DEF PlanInv, GoodSent
<1>2. QED
  BY <1>1, RequestFacts DEF FromPlan

\* What a message of an accepted plan carries (queueRequest).
LEMMA MessageFields ==
  ASSUME NEW q, NEW i, NEW m, FromPlan(m, q, i)
  PROVE  /\ m.operationID = deriveOperationID(q) /\ m.index = i
         /\ m.recipientCount = batchRecipientCount(q, i)
         /\ m.manifest.name = BlobName(q, "manifest", 0)
         /\ m.manifest.body = Manifest(q)
         /\ m.batch.name = BlobName(q, "batch", i)
         /\ m.batch.body = BlobBody(q, "batch", i)
         /\ m.batch.body.rows = buildBatches(q)[i]
  BY Names DEF FromPlan, queueRequest, BlobReference, BlobBody

(***************************************************************************)
(* Whatever is on the queue can be served: its manifest, its batch and the *)
(* release file are stored as the message names them (Publish stores every *)
(* blob before enqueueBatches).                                            *)
(***************************************************************************)
THEOREM MessagesServable == Spec => []MessageIsServable
<1>1. ASSUME PlanInv, NEW m \in sent
      PROVE  /\ \A reference \in {m.manifest, m.batch} :
                  /\ reference.name \in DOMAIN blobs
                  /\ blobs[reference.name].body = reference.body
             /\ m.manifest.body.operationID = m.operationID
             /\ Len(m.batch.body.rows) = m.recipientCount
             /\ LET dar == <<"releases", m.manifest.body.releaseVersion>> IN
                  dar \in DOMAIN blobs /\ blobs[dar].body.sha256 = m.manifest.body.dar
  <2>1. PICK q \in Requests, i \in Nat : FromPlan(m, q, i)
    BY <1>1, SentFrom
  <2>2. Has(q, "manifest", 0) /\ Has(q, "batch", i) /\ Has(q, "dar", 0)
    BY <2>1 DEF FromPlan, HasPlan, HasBatches
  <2>3. \A reference \in {m.manifest, m.batch} :
          reference.name \in DOMAIN blobs /\ blobs[reference.name].body = reference.body
    <3>1. m.manifest.name = BlobName(q, "manifest", 0) /\ m.manifest.body = BlobBody(q, "manifest", 0)
      BY <2>1, MessageFields, Names
    <3>2. m.batch.name = BlobName(q, "batch", i) /\ m.batch.body = BlobBody(q, "batch", i)
      BY <2>1, MessageFields
    <3>3. m.manifest.name \in DOMAIN blobs /\ blobs[m.manifest.name].body = m.manifest.body
      BY <2>2, <3>1 DEF Has
    <3>4. m.batch.name \in DOMAIN blobs /\ blobs[m.batch.name].body = m.batch.body
      BY <2>2, <3>2 DEF Has
    <3> QED
      BY <3>3, <3>4
  <2>m. m.manifest.body = Manifest(q) /\ m.operationID = deriveOperationID(q)
    BY <2>1, MessageFields
  <2>4. m.manifest.body.operationID = m.operationID
    BY <2>m DEF Manifest
  <2>5. Len(m.batch.body.rows) = m.recipientCount
    BY <2>1, MessageFields, BatchRows DEF FromPlan
  <2>6. /\ m.manifest.body.releaseVersion = q.source.version
        /\ m.manifest.body.dar = q.source.dar
    BY <2>m DEF Manifest
  <2>7. /\ <<"releases", q.source.version>> \in DOMAIN blobs
        /\ blobs[<<"releases", q.source.version>>].body.sha256 = q.source.dar
    BY <2>2 DEF Has, BlobName, BlobBody
  <2>8. QED
    BY <2>3, <2>4, <2>5, <2>6, <2>7
<1>2. PlanInv => MessageIsServable
  BY <1>1 DEF MessageIsServable
<1>3. QED
  BY <1>2, PlanInductive, PTL

(***************************************************************************)
(* A version of a release is announced for one commit and one artifact:    *)
(* both runs found their operation in the one identity blob.               *)
(***************************************************************************)
THEOREM OneIntent == Spec => []OneIntentPerVersion
<1>1. ASSUME PlanInv, NEW m \in sent, NEW n \in sent,
             m.operationID.source.release = n.operationID.source.release,
             m.operationID.source.version = n.operationID.source.version
      PROVE  m.operationID = n.operationID
  <2>1. PICK q \in Requests, i \in Nat : FromPlan(m, q, i)
    BY <1>1, SentFrom
  <2>2. PICK z \in Requests, j \in Nat : FromPlan(n, z, j)
    BY <1>1, SentFrom
  <2>3. m.operationID = deriveOperationID(q) /\ n.operationID = deriveOperationID(z)
    BY <2>1, <2>2, MessageFields
  <2>4. BlobName(q, "identity", 0) = BlobName(z, "identity", 0)
    BY <1>1, <2>3 DEF BlobName, deriveOperationID
  <2>5. BlobBody(q, "identity", 0) = BlobBody(z, "identity", 0)
    BY <2>1, <2>2, <2>4 DEF FromPlan, HasPlan, Has
  <2>6. deriveOperationID(q) = deriveOperationID(z)
    <3>1. /\ BlobBody(q, "identity", 0) = [operationID |-> deriveOperationID(q)]
          /\ BlobBody(z, "identity", 0) = [operationID |-> deriveOperationID(z)]
      BY DEF BlobBody
    <3> HIDE DEF deriveOperationID
    <3>2. QED
      BY <2>5, <3>1
  <2>7. QED
    BY <2>3, <2>6
<1>2. PlanInv => OneIntentPerVersion
  BY <1>1 DEF OneIntentPerVersion
<1>3. QED
  BY <1>2, PlanInductive, PTL

\* Two plans of one operation whose batches are stored agree on the batches both have.
LEMMA PlansAgree ==
  ASSUME NEW q, NEW z, deriveOperationID(q) = deriveOperationID(z),
         NEW i, Has(q, "batch", i), Has(z, "batch", i)
  PROVE  buildBatches(q)[i] = buildBatches(z)[i]
<1>1. BlobName(q, "batch", i) = BlobName(z, "batch", i)
  BY DEF BlobName
<1>2. BlobBody(q, "batch", i) = BlobBody(z, "batch", i)
  BY <1>1 DEF Has
<1>3. /\ BlobBody(q, "batch", i).rows = buildBatches(q)[i]
      /\ BlobBody(z, "batch", i).rows = buildBatches(z)[i]
  BY DEF BlobBody
<1>4. QED
  BY <1>2, <1>3

\* The recipients of two messages of one operation, the first with a lower index.
LEMMA RowsApart ==
  ASSUME NEW m, NEW n, NEW q \in Requests, NEW z \in Requests, NEW i \in Nat, NEW j \in Nat,
         FromPlan(m, q, i), FromPlan(n, z, j), m.operationID = n.operationID, i < j
  PROVE  Rows(m) \cap Rows(n) = {}
<1>1. /\ m.batch.body.rows = buildBatches(q)[i]
      /\ n.batch.body.rows = buildBatches(z)[j]
      /\ deriveOperationID(q) = deriveOperationID(z)
  BY MessageFields
<1>2. i \in 1..batchCount(q) /\ i \in 1..batchCount(z) /\ j \in 1..batchCount(z)
  BY RequestFacts DEF FromPlan
<1>3. Has(q, "batch", i) /\ Has(z, "batch", i) /\ planAllowed(z)
  BY <1>2 DEF FromPlan, HasPlan, HasBatches
<1>4. buildBatches(q)[i] = buildBatches(z)[i]
  BY <1>1, <1>3, PlansAgree
<1>5. \A a \in 1..Len(buildBatches(z)[i]), b \in 1..Len(buildBatches(z)[j]) :
        buildBatches(z)[i][a] # buildBatches(z)[j][b]
  BY <1>2, <1>3, BatchesApart
<1>6. QED
  BY <1>1, <1>4, <1>5 DEF Rows

(***************************************************************************)
(* No recipient is in two batches of an operation, whatever cohorts and    *)
(* batch sizes its runs were given: a run that sends batch j has found its *)
(* own batch i stored, for every i below j, and the batches of one plan    *)
(* are disjoint because its cohort is in order.                            *)
(***************************************************************************)
THEOREM BatchesStayDisjoint == Spec => []BatchesDisjoint
<1>1. ASSUME PlanInv, NEW m \in sent, NEW n \in sent, m.operationID = n.operationID,
             Rows(m) \cap Rows(n) # {}
      PROVE  m.index = n.index
  <2>1. PICK q \in Requests, i \in Nat : FromPlan(m, q, i)
    BY <1>1, SentFrom
  <2>2. PICK z \in Requests, j \in Nat : FromPlan(n, z, j)
    BY <1>1, SentFrom
  <2>3. ~(i < j) /\ ~(j < i)
    <3>1. Rows(n) \cap Rows(m) # {}
      BY <1>1
    <3>2. QED
      BY <1>1, <2>1, <2>2, <3>1, RowsApart
  <2>4. m.index = i /\ n.index = j
    BY <2>1, <2>2, MessageFields
  <2>5. QED
    BY <2>3, <2>4
<1>2. PlanInv => BatchesDisjoint
  BY <1>1 DEF BatchesDisjoint
<1>3. QED
  BY <1>2, PlanInductive, PTL

(***************************************************************************)
(* The current manifest is never ahead of the queue: every recipient of    *)
(* some run of its operation has a message (PutCurrentManifest comes after *)
(* enqueueBatches, and every recipient is in a batch).                     *)
(***************************************************************************)
THEOREM CurrentFollowsQueue == Spec => []CurrentAnnouncesQueued
<1>1. ASSUME PlanInv, NEW name \in DOMAIN blobs, name[1] = "current"
      PROVE  LET operation == blobs[name].body.operationID IN
             \E q \in Requests :
               /\ deriveOperationID(q) = operation
               /\ \A i \in 1..Len(q.recipients) : \E m \in sent :
                    m.operationID = operation /\ q.recipients[i] \in Rows(m)
  <2>1. PICK q \in Requests : /\ blobs[name].body = Manifest(q)
                              /\ Announced(q, batchCount(q))
    BY <1>1 DEF PlanInv, GoodBlobs, Immutable, Announces
  <2>2. blobs[name].body.operationID = deriveOperationID(q)
    BY <2>1 DEF Manifest
  <2>3. ASSUME NEW i \in 1..Len(q.recipients)
        PROVE  \E m \in sent : /\ m.operationID = deriveOperationID(q)
                               /\ q.recipients[i] \in Rows(m)
    <3>1. PICK k \in 1..batchCount(q) : \E l \in 1..Len(buildBatches(q)[k]) :
            buildBatches(q)[k][l] = q.recipients[i]
      BY BatchesCover
    <3>2. PICK m : m = queueRequest(q, k)
      OBVIOUS
    <3>3. m \in sent
      BY <2>1, <3>2 DEF Announced
    <3>4. m.operationID = deriveOperationID(q) /\ m.batch.body.rows = buildBatches(q)[k]
      BY <3>2 DEF queueRequest, BlobReference, BlobBody
    <3>5. q.recipients[i] \in Rows(m)
      BY <3>1, <3>4 DEF Rows
    <3>6. QED
      BY <3>3, <3>4, <3>5
  <2>4. QED
    BY <2>2, <2>3
<1>2. PlanInv => CurrentAnnouncesQueued
  BY <1>1 DEF CurrentAnnouncesQueued
<1>3. QED
  BY <1>2, PlanInductive, PTL

\* Only a harmless write whose ETag is current changes a blob (Upload, LateUpload).
LEMMA WhoStores ==
  ASSUME PlanInv, [Next]_vars, blobs' # blobs
  PROVE  \E name, body, etag :
           GoodWrite(name, body, etag) /\ ConditionHolds(name, etag) /\ Store(name, body)
<1>1. ASSUME NEW p \in Publishers, Upload(p)
      PROVE  \E name, body, etag :
               GoodWrite(name, body, etag) /\ ConditionHolds(name, etag) /\ Store(name, body)
  <2>1. GoodWrite(Name(p), Body(p), run[p].etag)
    BY <1>1, RunFacts DEF Upload, GoodRun, Name, Body
  <2>2. ConditionHolds(Name(p), run[p].etag) /\ Store(Name(p), Body(p))
    BY <1>1 DEF Upload
  <2>3. QED
    BY <2>1, <2>2
<1>2. CASE LateUpload
  <2>1. PICK x \in late : ConditionHolds(x.name, x.etag) /\ Store(x.name, x.body)
    BY <1>2 DEF LateUpload
  <2>2. GoodWrite(x.name, x.body, x.etag)
    BY DEF PlanInv, GoodLate
  <2>3. QED
    BY <2>1, <2>2
<1>3. QED
  BY <1>1, <1>2 DEF Next, Step, vars, Publish, Properties, enqueueBatches, StatCurrent,
                    DownloadCurrent, Stop

(***************************************************************************)
(* The current manifest only moves to higher versions, although it is read *)
(* in two calls, runs overlap and uploads land late (PutCurrentManifest).  *)
(***************************************************************************)
THEOREM CurrentOnlyAdvances == Spec => CurrentAdvances
<1>1. ASSUME PlanInv, [Next]_vars, NEW name \in DOMAIN blobs, name[1] = "current",
             blobs'[name] # blobs[name]
      PROVE  blobs[name].body.releaseVersion < blobs'[name].body.releaseVersion
  <2>1. PICK n, body, etag :
          GoodWrite(n, body, etag) /\ ConditionHolds(n, etag) /\ Store(n, body)
    BY <1>1, WhoStores
  <2>2. n = name /\ blobs'[name].body = body
    BY <1>1, <2>1 DEF Store
  <2>3. etag = blobs[name].etag /\ etag > 0
    BY <1>1, <2>1, <2>2 DEF ConditionHolds, ETag, PlanInv, GoodBlobs
  <2>4. QED
    BY <1>1, <2>1, <2>2, <2>3 DEF GoodWrite, Immutable, ETag
<1>2. ASSUME PlanInv, [Next]_vars
      PROVE  [\A name \in DOMAIN blobs : name[1] = "current" /\ blobs'[name] # blobs[name] =>
                blobs[name].body.releaseVersion < blobs'[name].body.releaseVersion]_vars
  BY <1>1, <1>2
<1>3. QED
  BY <1>2, PlanInductive, PTL DEF Spec, CurrentAdvances

(***************************************************************************)
(* Nothing is ever written over an immutable blob (putImmutable): what a   *)
(* message names stays what it was when the message was sent.              *)
(***************************************************************************)
THEOREM ImmutableStays ==
  Spec => [][\A n \in DOMAIN blobs : n[1] # "current" =>
               n \in DOMAIN blobs' /\ blobs'[n] = blobs[n]]_vars
<1>1. ASSUME PlanInv, [Next]_vars, NEW n \in DOMAIN blobs, n[1] # "current"
      PROVE  n \in DOMAIN blobs' /\ blobs'[n] = blobs[n]
  <2>1. CASE blobs' = blobs
    BY <2>1
  <2>2. CASE blobs' # blobs
    <3>1. PICK name, body, etag :
            GoodWrite(name, body, etag) /\ ConditionHolds(name, etag) /\ Store(name, body)
      BY <1>1, <2>2, WhoStores
    <3>2. n # name
      BY <1>1, <3>1 DEF GoodWrite, Immutable, ConditionHolds, ETag, PlanInv, GoodBlobs
    <3>3. QED
      BY <3>1, <3>2 DEF Store
  <2>3. QED
    BY <2>1, <2>2
<1>2. ASSUME PlanInv, [Next]_vars
      PROVE  [\A n \in DOMAIN blobs : n[1] # "current" =>
                n \in DOMAIN blobs' /\ blobs'[n] = blobs[n]]_vars
  BY <1>1, <1>2
<1>3. QED
  BY <1>2, PlanInductive, PTL DEF Spec

(***************************************************************************)
(* No recipient is repeated in a batch: the rows of a message are in order *)
(* because the cohort is (validRecipients).  With this the order of rows   *)
(* in WorkerDelivery holds for every batch the publisher makes.            *)
(***************************************************************************)
THEOREM RowsStayInOrder == Spec => []RowsIncrease
<1>1. ASSUME PlanInv, NEW m \in sent,
             NEW j \in 1..Len(m.batch.body.rows), NEW k \in 1..Len(m.batch.body.rows), j < k
      PROVE  m.batch.body.rows[j] < m.batch.body.rows[k]
  <2>1. PICK q \in Requests, i \in Nat : FromPlan(m, q, i)
    BY <1>1, SentFrom
  <2>2. i \in 1..batchCount(q) /\ planAllowed(q)
    BY <2>1 DEF FromPlan
  <2>3. m.batch.body.rows = buildBatches(q)[i]
    BY <2>1, MessageFields
  <2>4. QED
    BY <1>1, <2>2, <2>3, BatchIncreases
<1>2. PlanInv => RowsIncrease
  BY <1>1 DEF RowsIncrease
<1>3. QED
  BY <1>2, PlanInductive, PTL

------------------------------------------------------------------------------
(***************************************************************************)
(* Runs end.                                                               *)
(***************************************************************************)
\* A run in state r may go on in state s.
Advance(r, s) ==
  s.pc # "idle" =>
    /\ Position(r) < Position(s)
    /\ Position(s) <= 3 * batchCount(s.request) + 12
    /\ r.pc # "idle" => s.request = r.request

\* The position of a run, by where it is in its plan.
LEMMA Positions ==
  ASSUME NEW s \in RunState, batchCount(s.request) \in Nat
  PROVE  LET n == batchCount(s.request) IN
         /\ s.pc = "idle" => Position(s) = 0
         /\ s.pc = "send" => Position(s) = 2 * n + 8 + s.index
         /\ s.pc = "stat" => Position(s) = 3 * n + 9
         /\ s.pc = "download" => Position(s) = 3 * n + 10
         /\ s.pc = "upload" =>
              /\ s.step = "identity" => Position(s) = 1
              /\ s.step = "dar" => Position(s) = 3
              /\ s.step = "manifest" => Position(s) = 5
              /\ s.step = "batch" => Position(s) = 5 + 2 * s.index
              /\ s.step = "current" => Position(s) = 3 * n + 11
         /\ s.pc = "properties" =>
              /\ s.step = "identity" => Position(s) = 2
              /\ s.step = "dar" => Position(s) = 4
              /\ s.step = "manifest" => Position(s) = 6
              /\ s.step = "batch" => Position(s) = 6 + 2 * s.index
              /\ s.step = "current" => Position(s) = 3 * n + 12
<1> PICK n : n = batchCount(s.request)
  OBVIOUS
<1>1. s.index \in Nat
  BY DEF RunState
<1>2. QED
  BY <1>1 DEF Position

\* A run that goes on with another step of its plan, at a higher position (At).
LEMMA AtAdvances ==
  ASSUME PlanInv, NEW p \in Publishers, run[p].pc # "idle",
         NEW pc \in {"upload", "send", "stat", "download"},
         NEW step \in {"none", "dar", "manifest", "batch", "current"}, NEW index \in Nat,
         NEW s, s = At(p, pc, step, index),
         Position(run[p]) < Position(s),
         Position(s) <= 3 * BatchCount(p) + 12
  PROVE  Advance(run[p], s)
<1>1. s.request = run[p].request
  BY AtFields
<1>2. QED
  BY <1>1 DEF Advance, BatchCount

\* The position of a run that goes on.
LEMMA AtPosition ==
  ASSUME PlanInv, NEW p \in Publishers, run[p].pc # "idle",
         NEW pc \in {"upload", "send", "stat"},
         NEW step \in {"none", "dar", "manifest", "batch", "current"}, NEW index \in Nat,
         NEW s, s = At(p, pc, step, index)
  PROVE  LET n == BatchCount(p) IN
         /\ pc = "send" => Position(s) = 2 * n + 8 + index
         /\ pc = "stat" => Position(s) = 3 * n + 9
         /\ pc = "upload" /\ step = "dar" => Position(s) = 3
         /\ pc = "upload" /\ step = "manifest" => Position(s) = 5
         /\ pc = "upload" /\ step = "batch" => Position(s) = 5 + 2 * index
         /\ pc = "upload" /\ step = "current" => Position(s) = 3 * n + 11
<1>1. /\ run[p].request \in Requests
      /\ BatchCount(p) = batchCount(run[p].request) /\ BatchCount(p) \in Nat
  BY RunFacts
<1>2. /\ s \in RunState /\ s.pc = pc /\ s.step = step /\ s.index = index
      /\ batchCount(s.request) = BatchCount(p)
  BY <1>1, AtFields
<1>3. QED
  BY <1>1, <1>2, Positions

\* The blob of the present step is stored (Published).
LEMMA PublishedAdvances ==
  ASSUME PlanInv, NEW p \in Publishers, run[p].pc \in {"upload", "properties"},
         NEW s, s = Published(p)
  PROVE  Advance(run[p], s)
<1> PICK r : r = run[p]
  OBVIOUS
<1> PICK n : n = BatchCount(p)
  OBVIOUS
<1>1. /\ r \in RunState /\ n = batchCount(r.request) /\ n \in Nat \ {0}
      /\ r.index \in Nat
      /\ r.step \in {"identity", "dar", "manifest", "batch", "current"}
      /\ r.step = "batch" => r.index > 0 /\ r.index <= n
  <2>1. run[p].pc # "idle"
    OBVIOUS
  <2>2. r \in RunState /\ n = batchCount(r.request) /\ n \in Nat \ {0} /\ AtPlan(r)
    BY <2>1, RunFacts
  <2>3. r.index \in Nat /\ r.step \in {"none", "identity", "dar", "manifest", "batch", "current"}
    BY <2>2 DEF RunState
  <2>4. r.step # "none" /\ (r.step = "batch" => r.index > 0 /\ r.index <= n)
    BY <2>2, <2>3 DEF AtPlan
  <2> QED
    BY <2>2, <2>3, <2>4
<1>2. /\ r.step = "identity" => Position(r) <= 2
      /\ r.step = "dar" => Position(r) <= 4
      /\ r.step = "manifest" => Position(r) <= 6
      /\ r.step = "batch" => Position(r) <= 6 + 2 * r.index
      /\ Position(r) \in Nat
  BY <1>1, Positions
<1>3. CASE r.step = "identity"
  <2>1. s = At(p, "upload", "dar", 0)
    BY <1>3 DEF Published
  <2>2. Position(s) = 3
    BY <2>1, AtPosition
  <2>3. Position(run[p]) < Position(s) /\ Position(s) <= 3 * BatchCount(p) + 12
    BY <1>1, <1>2, <1>3, <2>2
  <2>4. QED
    BY <2>1, <2>3, AtAdvances
<1>4. CASE r.step = "dar"
  <2>1. s = At(p, "upload", "manifest", 0)
    BY <1>4 DEF Published
  <2>2. Position(s) = 5
    BY <2>1, AtPosition
  <2>3. Position(run[p]) < Position(s) /\ Position(s) <= 3 * BatchCount(p) + 12
    BY <1>1, <1>2, <1>4, <2>2
  <2>4. QED
    BY <2>1, <2>3, AtAdvances
<1>5. CASE r.step = "manifest"
  <2>1. s = At(p, "upload", "batch", 1)
    BY <1>5 DEF Published
  <2>2. Position(s) = 7
    BY <2>1, AtPosition
  <2>3. Position(run[p]) < Position(s) /\ Position(s) <= 3 * BatchCount(p) + 12
    BY <1>1, <1>2, <1>5, <2>2
  <2>4. QED
    BY <2>1, <2>3, AtAdvances
<1>6. CASE r.step = "batch" /\ r.index < n
  <2>1. s = At(p, "upload", "batch", r.index + 1)
    BY <1>6 DEF Published, AfterBatch
  <2>2. Position(s) = 5 + 2 * (r.index + 1)
    BY <1>1, <2>1, AtPosition
  <2>3. Position(run[p]) < Position(s) /\ Position(s) <= 3 * BatchCount(p) + 12
    BY <1>1, <1>2, <1>6, <2>2
  <2>4. r.index + 1 \in Nat /\ run[p].pc # "idle"
    BY <1>1
  <2>5. QED
    BY <2>1, <2>3, <2>4, AtAdvances
<1>7. CASE r.step = "batch" /\ r.index = n
  <2>1. s = At(p, "send", "none", 1)
    BY <1>1, <1>7 DEF Published, AfterBatch, AfterBatches
  <2>2. Position(s) = 2 * BatchCount(p) + 8 + 1
    BY <2>1, AtPosition
  <2>3. Position(run[p]) < Position(s) /\ Position(s) <= 3 * BatchCount(p) + 12
    <3>1. Position(r) <= 6 + 2 * n /\ Position(r) \in Nat /\ n \in Nat
      BY <1>1, <1>2, <1>7
    <3>2. Position(s) = 2 * n + 9
      BY <2>2, <3>1
    <3>3. QED
      BY <3>1, <3>2
  <2>4. QED
    BY <2>1, <2>3, AtAdvances
<1>8. CASE r.step = "current"
  BY <1>8 DEF Published, Advance, Idle
<1>9. QED
  BY <1>1, <1>3, <1>4, <1>5, <1>6, <1>7, <1>8

\* An upload met an existing blob, or the present manifest may be replaced: the
\* run stays at its blob and goes on with another call.
LEMMA SameStepAdvances ==
  ASSUME PlanInv, NEW p \in Publishers, NEW pc \in {"upload", "properties"},
         \/ run[p].pc = "upload" /\ pc = "properties"
         \/ run[p].pc = "download" /\ pc = "upload",
         NEW s, s = [run[p] EXCEPT !.pc = pc]
  PROVE  Advance(run[p], s)
<1> PICK r : r = run[p]
  OBVIOUS
<1> PICK n : n = batchCount(r.request)
  OBVIOUS
<1>1. r \in RunState /\ n \in Nat \ {0} /\ AtPlan(r)
  <2>1. run[p].pc # "idle"
    OBVIOUS
  <2>2. QED
    BY <2>1, RunFacts
<1>2. /\ s \in RunState /\ s.pc = pc /\ s.step = r.step /\ s.index = r.index
      /\ s.request = r.request
  BY <1>1 DEF RunState
<1>3. /\ r.index \in Nat
      /\ r.step \in {"identity", "dar", "manifest", "batch", "current"}
      /\ r.step = "batch" => r.index <= n
  <2>1. r.index \in Nat /\ r.step \in {"none", "identity", "dar", "manifest", "batch", "current"}
    BY <1>1 DEF RunState
  <2>2. QED
    BY <1>1, <2>1 DEF AtPlan
<1>4. r.pc = "download" => r.step = "current"
  BY <1>1 DEF AtPlan
<1>5. Position(r) < Position(s) /\ Position(s) <= 3 * n + 12
  <2>1. CASE r.pc = "download"
    <3>1. Position(r) = 3 * n + 10
      BY <1>1, <2>1, Positions
    <3>2. Position(s) = 3 * n + 11
      BY <1>1, <1>2, <1>4, <2>1, Positions
    <3>3. QED
      BY <1>1, <3>1, <3>2
  <2>2. CASE r.pc = "upload"
    <3>1. s.pc = "properties" /\ r.pc = "upload"
      BY <1>2, <2>2
    <3>2. /\ r.step = "identity" => Position(r) = 1 /\ Position(s) = 2
          /\ r.step = "dar" => Position(r) = 3 /\ Position(s) = 4
          /\ r.step = "manifest" => Position(r) = 5 /\ Position(s) = 6
          /\ r.step = "batch" => Position(r) = 5 + 2 * r.index /\ Position(s) = 6 + 2 * r.index
          /\ r.step = "current" => Position(r) = 3 * n + 11 /\ Position(s) = 3 * n + 12
      BY <1>1, <1>2, <3>1, Positions
    <3>3. QED
      BY <1>1, <1>3, <3>2
  <2>3. QED
    BY <2>1, <2>2
<1>6. QED
  BY <1>2, <1>5 DEF Advance

\* Every call of a run moves it on in its plan, or ends it (Step).
LEMMA StepAdvances ==
  ASSUME PlanInv, NEW p \in Publishers, Step(p)
  PROVE  \E s : Become(p, s) /\ Advance(run[p], s)
<1>1. Advance(run[p], Idle)
  BY DEF Advance, Idle
<1>2. ASSUME NEW q \in Requests, Publish(p, q)
      PROVE  \E s : Become(p, s) /\ Advance(run[p], s)
  <2>1. PICK s : /\ Become(p, s)
                 /\ s = [Idle EXCEPT !.pc = "upload", !.request = q, !.step = "identity"]
    BY <1>2 DEF Publish
  <2>2. s \in RunState /\ s.pc = "upload" /\ s.request = q /\ s.step = "identity"
    BY <2>1 DEF Idle, RunState
  <2>3. run[p].pc = "idle" /\ batchCount(q) \in Nat
    BY <1>2, RequestFacts DEF Publish
  <2>4. Position(run[p]) = 0
    BY <2>3 DEF Position
  <2>5. Position(s) = 1
    BY <2>2, <2>3, Positions
  <2>6. Position(run[p]) < Position(s) /\ Position(s) <= 3 * batchCount(s.request) + 12
    BY <2>2, <2>3, <2>4, <2>5
  <2>7. Advance(run[p], s)
    BY <2>3, <2>6 DEF Advance
  <2>8. QED
    BY <2>1, <2>7
<1>3. ASSUME run[p].pc = "upload" PROVE Advance(run[p], Conflicted(p))
  <2>1. CASE run[p].etag = 0
    BY <1>3, <2>1, SameStepAdvances DEF Conflicted
  <2>2. CASE run[p].etag # 0
    BY <1>1, <2>2 DEF Conflicted
  <2>3. QED
    BY <2>1, <2>2
<1>4. CASE Upload(p)
  <2>1. run[p].pc = "upload"
    BY <1>4 DEF Upload
  <2>2. PICK s \in {Published(p), Conflicted(p), Idle} : Become(p, s)
    BY <1>4 DEF Upload
  <2>3. QED
    BY <1>1, <1>3, <2>1, <2>2, PublishedAdvances
<1>5. CASE Properties(p)
  <2>1. run[p].pc = "properties"
    BY <1>5 DEF Properties
  <2>2. PICK s \in {Published(p), Idle} : Become(p, s)
    BY <1>5 DEF Properties
  <2>3. QED
    BY <1>1, <2>1, <2>2, PublishedAdvances
<1>6. CASE enqueueBatches(p)
  <2> PICK r : r = run[p]
    OBVIOUS
  <2> PICK n : n = BatchCount(p)
    OBVIOUS
  <2>1. r.pc = "send" /\ r \in RunState /\ n = batchCount(r.request) /\ n \in Nat \ {0} /\ AtPlan(r)
    BY <1>6, RunFacts DEF enqueueBatches
  <2>2. r.index \in Nat /\ r.index <= n
    BY <2>1 DEF RunState, AtPlan
  <2>3. Position(r) = 2 * n + 8 + r.index
    BY <2>1, Positions
  <2>4. CASE r.index < n
    <3>1. PICK s : Become(p, s) /\ s = At(p, "send", "none", r.index + 1)
      BY <1>6, <2>4 DEF enqueueBatches
    <3>2. r.index + 1 \in Nat /\ run[p].pc # "idle"
      BY <2>1, <2>2
    <3>3. Position(s) = 2 * n + 8 + (r.index + 1)
      BY <3>1, <3>2, AtPosition
    <3>4. Position(run[p]) < Position(s) /\ Position(s) <= 3 * BatchCount(p) + 12
      BY <2>1, <2>2, <2>3, <2>4, <3>3
    <3>5. QED
      BY <3>1, <3>2, <3>4, AtAdvances
  <2>5. CASE ~(r.index < n)
    <3>1. PICK s : Become(p, s) /\ s = At(p, "stat", "current", 0)
      BY <1>6, <2>5 DEF enqueueBatches
    <3>2. run[p].pc # "idle"
      BY <2>1
    <3>3. Position(s) = 3 * n + 9
      BY <3>1, <3>2, AtPosition
    <3>4. Position(run[p]) < Position(s) /\ Position(s) <= 3 * BatchCount(p) + 12
      BY <2>1, <2>2, <2>3, <3>3
    <3>5. QED
      BY <3>1, <3>2, <3>4, AtAdvances
  <2>6. QED
    BY <2>4, <2>5
<1>7. CASE StatCurrent(p)
  <2> PICK n : n = BatchCount(p)
    OBVIOUS
  <2>1. /\ run[p].pc = "stat" /\ run[p] \in RunState /\ run[p].request \in Requests
        /\ n = batchCount(run[p].request) /\ n \in Nat \ {0}
    BY <1>7, RunFacts DEF StatCurrent
  <2>2. Position(run[p]) = 3 * n + 9
    BY <2>1, Positions
  <2>3. CASE Become(p, At(p, "upload", "current", 0))
    <3>1. PICK s : Become(p, s) /\ s = At(p, "upload", "current", 0)
      BY <2>3
    <3>2. Position(s) = 3 * n + 11
      <4>1. run[p].pc # "idle"
        BY <2>1
      <4>2. QED
        BY <3>1, <4>1, AtPosition
    <3>3. Position(run[p]) < Position(s) /\ Position(s) <= 3 * BatchCount(p) + 12
      BY <2>1, <2>2, <3>2
    <3>4. QED
      BY <2>1, <3>1, <3>3, AtAdvances
  <2>4. CASE Name(p) \in DOMAIN blobs
    <3>1. PICK s : /\ Become(p, s)
                   /\ s = [At(p, "download", "current", 0)
                             EXCEPT !.etag = blobs[Name(p)].etag, !.existing = blobs[Name(p)].body]
      BY <1>7, <2>4 DEF StatCurrent
    <3>2. s.pc = "download" /\ s.request = run[p].request
      BY <3>1 DEF At, Idle
    <3>3. Position(s) = 3 * n + 10
      BY <2>1, <3>2 DEF Position
    <3>4. Position(run[p]) < Position(s) /\ Position(s) <= 3 * batchCount(s.request) + 12
      BY <2>1, <2>2, <3>2, <3>3
    <3>5. Advance(run[p], s)
      BY <3>2, <3>4 DEF Advance
    <3>6. QED
      BY <3>1, <3>5
  <2>5. QED
    BY <1>7, <2>3, <2>4 DEF StatCurrent
<1>8. CASE DownloadCurrent(p)
  <2>1. run[p].pc = "download"
    BY <1>8 DEF DownloadCurrent
  <2>2. PICK s \in {[run[p] EXCEPT !.pc = "upload"], Idle} : Become(p, s)
    BY <1>8 DEF DownloadCurrent
  <2>3. QED
    BY <1>1, <2>1, <2>2, SameStepAdvances
<1>9. CASE Stop(p)
  BY <1>1, <1>9 DEF Stop
<1>10. QED
  BY <1>2, <1>4, <1>5, <1>6, <1>7, <1>8, <1>9 DEF Step

(***************************************************************************)
(* A run never does a step of its plan twice: each call takes it further,  *)
(* within a number of calls that depends on its batches only, or ends it.  *)
(* This is why Publish returns whatever other runs store meanwhile; that a *)
(* call returns at all is left to its context.                             *)
(***************************************************************************)
THEOREM RunsEnd == Spec => RunsAdvance
<1>1. ASSUME PlanInv, [Next]_vars, NEW v \in Publishers, run'[v] # run[v], run'[v].pc # "idle"
      PROVE  /\ Position(run[v]) < Position(run'[v])
             /\ Position(run'[v]) <= 3 * batchCount(run'[v].request) + 12
             /\ run[v].pc # "idle" => run'[v].request = run[v].request
  <2>1. PICK p \in Publishers : Step(p)
    BY <1>1 DEF Next, LateUpload, vars
  <2>2. PICK s : Become(p, s) /\ Advance(run[p], s)
    BY <1>1, <2>1, StepAdvances
  <2>3. run' = [run EXCEPT ![p] = s] /\ v \in DOMAIN run
    BY <1>1, <2>2 DEF Become, PlanInv, GoodRuns
  <2>4. v = p /\ run'[v] = s
    BY <1>1, <2>3
  <2>5. QED
    BY <1>1, <2>2, <2>4 DEF Advance
<1>2. PlanInv /\ [Next]_vars =>
        [\A p \in Publishers :
           run'[p] # run[p] /\ run'[p].pc # "idle" =>
             /\ Position(run[p]) < Position(run'[p])
             /\ Position(run'[p]) <= 3 * batchCount(run'[p].request) + 12
             /\ run[p].pc # "idle" => run'[p].request = run[p].request]_vars
  BY <1>1
<1>3. QED
  BY <1>2, PlanInductive, PTL DEF Spec, RunsAdvance
==============================================================================
