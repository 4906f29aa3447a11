-------------------------- MODULE DistributionSafety --------------------------
(***************************************************************************)
(* The safety of the whole way from a commit to the recipients, for any    *)
(* commits, files of recipients and limits: the composition implements     *)
(* Publisher, SystemInv is inductive, and the properties of Distribution   *)
(* follow from it.                                                         *)
(***************************************************************************)
EXTENDS DistributionInvariant, PublisherSafety, FiniteSetTheorems, FunctionTheorems

------------------------------------------------------------------------------
(***************************************************************************)
(* What the pipeline gives to the publisher.                               *)
(***************************************************************************)
\* Different numbers can be put in order: by how many are below each of them.
LEMMA CanBeSorted ==
  ASSUME NEW n \in Nat, NEW f \in [1..n -> Nat], \A i, j \in 1..n : f[i] = f[j] => i = j
  PROVE  \E p \in Bijection(1..n, 1..n) : \A i, j \in 1..n : i < j => f[p[i]] < f[p[j]]
<1> DEFINE S == 1..n
           Below(i) == {j \in S : f[j] < f[i]}
           rank == [i \in S |-> Cardinality(Below(i)) + 1]
<1>1. IsFiniteSet(S)
  BY FS_Interval
<1>2. ASSUME NEW i \in S, NEW T \in SUBSET S, Below(i) \cup {i} \subseteq T
      PROVE  /\ Cardinality(Below(i)) \in Nat /\ Cardinality(T) \in Nat
             /\ Cardinality(Below(i)) + 1 <= Cardinality(T)
  <2>1. IsFiniteSet(T) /\ IsFiniteSet(Below(i))
    BY <1>1, FS_Subset
  <2>2. Cardinality(Below(i)) \in Nat /\ Cardinality(T) \in Nat
    BY <2>1, FS_CardinalityType
  <2>3. i \notin Below(i)
    OBVIOUS
  <2>4. Cardinality(Below(i) \cup {i}) = Cardinality(Below(i)) + 1
    BY <2>1, <2>3, FS_AddElement
  <2>5. Cardinality(Below(i) \cup {i}) <= Cardinality(T)
    BY <1>2, <2>1, FS_Subset
  <2> QED
    BY <2>2, <2>4, <2>5
<1>3. Cardinality(S) = n
  BY FS_Interval
<1>4. rank \in [S -> S]
  <2> SUFFICES ASSUME NEW i \in S PROVE Cardinality(Below(i)) + 1 \in S
    OBVIOUS
  <2>1. Cardinality(Below(i)) \in Nat /\ Cardinality(Below(i)) + 1 <= Cardinality(S)
    BY <1>2
  <2> QED
    BY <1>3, <2>1
<1>5. ASSUME NEW i \in S, NEW j \in S, f[i] < f[j] PROVE rank[i] < rank[j]
  <2>1. Below(i) \cup {i} \subseteq Below(j)
    BY <1>5
  <2>2. Cardinality(Below(i)) + 1 <= Cardinality(Below(j))
    BY <1>2, <2>1
  <2>3. Cardinality(Below(i)) \in Nat /\ Cardinality(Below(j)) \in Nat
    BY <1>1, FS_Subset, FS_CardinalityType
  <2> HIDE DEF Below
  <2> QED
    BY <2>2, <2>3
<1> HIDE DEF rank
<1>6. \A i, j \in S : rank[i] = rank[j] => i = j
  <2> SUFFICES ASSUME NEW i \in S, NEW j \in S, rank[i] = rank[j] PROVE f[i] = f[j]
    OBVIOUS
  <2>1. ~(rank[i] < rank[j]) /\ ~(rank[j] < rank[i])
    BY <1>4
  <2>2. ~(f[i] < f[j]) /\ ~(f[j] < f[i])
    BY <1>5, <2>1
  <2> QED
    BY <2>2
<1>7. rank \in Injection(S, S)
  BY <1>4, <1>6, Fun_IsInj
<1>8. \A k \in S : \E i \in S : rank[i] = k
  <2>1. rank \in Surjection(S, S)
    BY <1>1, <1>7, FS_Injection
  <2> HIDE DEF S
  <2> QED
    BY <2>1, Fun_SurjectionProperties
<1> DEFINE p == [k \in S |-> CHOOSE i \in S : rank[i] = k]
<1>9. p \in [S -> S] /\ \A k \in S : rank[p[k]] = k
  BY <1>8
<1> HIDE DEF p
<1>10. \A t \in S : p[rank[t]] = t
  BY <1>4, <1>6, <1>9
<1>11. p \in Bijection(S, S)
  <2>1. \A a, b \in S : p[a] = p[b] => a = b
    BY <1>9
  <2>2. \A t \in S : \E k \in S : p[k] = t
    BY <1>4, <1>10
  <2> QED
    BY <1>9, <2>1, <2>2, Fun_IsBij
<1>12. ASSUME NEW i \in S, NEW j \in S, i < j PROVE f[p[i]] < f[p[j]]
  <2>0. rank[p[i]] = i /\ rank[p[j]] = j /\ i # j /\ ~(j < i)
    <3>1. i # j /\ ~(j < i)
      BY <1>12
    <3> HIDE DEF S
    <3> QED
      BY <1>9, <3>1
  <2>1. p[i] \in S /\ p[j] \in S /\ p[i] # p[j]
    <3> HIDE DEF S
    <3> QED
      BY <1>9, <2>0
  <2>2. ~(rank[p[j]] < rank[p[i]])
    BY <2>0, Zenon
  <2>3. ~(f[p[j]] < f[p[i]]) /\ f[p[i]] # f[p[j]]
    BY <1>5, <2>1, <2>2
  <2> QED
    BY <2>1, <2>3
<1> QED
  BY <1>11, <1>12

\* ParseRecipients makes an ordered cohort, without repetitions, of an accepted file.
LEMMA CohortIsOrdered ==
  ASSUME NEW cohort \in DOMAIN Files, ParseRecipientsAllowed(Files[cohort])
  PROVE  LET recipients == ParseRecipients(Files[cohort]) IN
         /\ recipients \in Seq(Nat) /\ Len(recipients) > 0
         /\ Known(recipients)
         /\ \A i, j \in 1..Len(recipients) : i < j => recipients[i] < recipients[j]
<1> DEFINE rows == Files[cohort].rows
<1>1. /\ rows \in Seq(Range(rows))
      /\ \A row \in Range(rows) : row.email \in Addresses
      /\ Addresses \subseteq Nat
  BY DistributionAssumption
<1>2. PICK n \in Nat : n = Len(rows) /\ n > 0 /\ DOMAIN rows = 1..n
  BY <1>1 DEF ParseRecipientsAllowed
<1>3. \A i \in 1..n : rows[i].email \in Addresses /\ rows[i].email \in Nat
  <2>1. \A i \in 1..n : rows[i] \in Range(rows)
    BY <1>2 DEF Range
  <2> QED
    BY <1>1, <2>1
<1>4. PICK f \in [1..n -> Nat] : \A i \in 1..n : f[i] = rows[i].email
  <2>1. [i \in 1..n |-> rows[i].email] \in [1..n -> Nat]
    BY <1>3
  <2> QED
    BY <2>1
<1>5. \A i, j \in 1..n : f[i] = f[j] => i = j
  BY <1>2, <1>4 DEF ParseRecipientsAllowed, duplicate
<1>6. PICK p \in Bijection(1..n, 1..n) : \A i, j \in 1..n : i < j => f[p[i]] < f[p[j]]
  BY <1>5, CanBeSorted
<1>7. sorted(rows, p)
  <2>1. p \in [1..n -> 1..n]
    BY <1>6, Fun_BijectionProperties
  <2>2. \A i \in 1..n : rows[p[i]].email = f[p[i]] /\ f[p[i]] \in Nat
    BY <1>4, <2>1
  <2> SUFFICES ASSUME NEW i \in 1..n, NEW j \in 1..n, i < j
               PROVE  rows[p[i]].email <= rows[p[j]].email
    BY <1>2 DEF sorted
  <2>3. f[p[i]] < f[p[j]]
    BY <1>6
  <2> QED
    BY <2>2, <2>3
<1>8. PICK order : /\ order = CHOOSE o \in Bijection(1..n, 1..n) : sorted(rows, o)
                   /\ order \in Bijection(1..n, 1..n) /\ sorted(rows, order)
  BY <1>6, <1>7
<1>9. /\ order \in [1..n -> 1..n]
      /\ \A i, j \in 1..n : order[i] = order[j] => i = j
  <2>1. PICK S : S = 1..n
    OBVIOUS
  <2>2. order \in Bijection(S, S)
    BY <1>8, <2>1
  <2>3. order \in [S -> S] /\ \A i, j \in S : order[i] = order[j] => i = j
    BY <2>2, Fun_BijectionProperties
  <2> QED
    BY <2>1, <2>3
<1> DEFINE recipients == [i \in 1..n |-> rows[order[i]].email]
<1>10. ParseRecipients(Files[cohort]) = recipients
  BY <1>2, <1>8 DEF ParseRecipients
<1>11. \A i \in 1..n : recipients[i] = f[order[i]] /\ recipients[i] \in Nat
  BY <1>4, <1>9
<1>12. recipients \in Seq(Nat) /\ Len(recipients) = n
  <2>1. recipients \in [1..n -> Nat]
    BY <1>11
  <2> HIDE DEF recipients
  <2> QED
    BY <1>2, <2>1
<1>13. ASSUME NEW i \in 1..n, NEW j \in 1..n, i < j PROVE recipients[i] < recipients[j]
  <2>1. order[i] \in 1..n /\ order[j] \in 1..n /\ order[i] # order[j]
    BY <1>9, <1>13
  <2>2. rows[order[i]].email <= rows[order[j]].email
    BY <1>2, <1>8, <1>13 DEF sorted
  <2>3. f[order[i]] # f[order[j]]
    BY <1>5, <2>1
  <2>4. recipients[i] <= recipients[j] /\ recipients[i] # recipients[j]
    BY <1>11, <2>2, <2>3
  <2> HIDE DEF recipients
  <2> QED
    BY <1>11, <2>4
<1>14. \A i \in 1..n : recipients[i] \in Addresses
  BY <1>3, <1>9
<1> HIDE DEF recipients
<1> QED
  BY <1>2, <1>10, <1>12, <1>13, <1>14 DEF Known

\* What publishCommand makes of an accepted commit (RequestTable, SourceTable).
LEMMA RequestOfCommit ==
  ASSUME CommitInv, NEW commit \in 1..Len(commits), NEW cohort \in DOMAIN Files,
         <<commits[commit], cohort>> \in Accepted
  PROVE  /\ requestOf(commit, cohort) \in Requests
         /\ deriveOperationID(requestOf(commit, cohort))
              = [commit |-> commit, source |-> SourceTable[commits[commit]]]
         /\ commits[commit] \in DOMAIN SourceTable
         /\ requestOf(commit, cohort).recipients = ParseRecipients(Files[cohort])
         /\ Known(requestOf(commit, cohort).recipients)
<1> DEFINE x == <<<<commits[commit], cohort>>, commit>>
<1>0. MaxCommits \in Nat
  BY DistributionAssumption
<1>1. x \in Accepted \X (1..MaxCommits)
  BY <1>0 DEF CommitInv
<1>2. x \in DOMAIN RequestTable
  BY <1>1 DEF RequestTable
<1>3. RequestTable[x] \in Requests
  BY <1>2, DistributionAssumption
<1>4. /\ RequestTable[x].source = SourceTable[commits[commit]]
      /\ RequestTable[x].commit = commit
      /\ RequestTable[x].recipients = ParseRecipients(Files[cohort])
  BY <1>1 DEF RequestTable
<1>5. commits[commit] \in DOMAIN SourceTable
  <2> HIDE DEF Accepted
  <2> QED
    BY DEF SourceTable
<1>6. Known(ParseRecipients(Files[cohort]))
  BY CohortIsOrdered DEF Accepted, loadInputAllowed
<1> QED
  BY <1>3, <1>4, <1>5, <1>6 DEF requestOf, deriveOperationID

\* Every step of the system is a step of the publisher or does not touch it.
LEMMA SystemStepIs ==
  ASSUME CommitInv, [SystemNext]_systemVars
  PROVE  [Next]_vars
<1>1. ASSUME NEW p \in Publishers, NEW commit \in 1..Len(commits), NEW cohort \in DOMAIN Files,
             publishCommand(p, commit, cohort)
      PROVE  Next
  BY <1>1, RequestOfCommit DEF publishCommand, Next, Step
<1>2. ASSUME NEW p \in Publishers, PublisherStep(p) PROVE Next
  BY <1>2 DEF PublisherStep, Next, Step
<1>3. LateStep => Next
  BY DEF LateStep, Next
<1>4. ASSUME \/ \E tree \in DOMAIN Trees : Merge(tree)
             \/ \E cohort \in DOMAIN Files : Settle(cohort)
             \/ \E m \in sent : \E i \in 1..Len(m.batch.body.rows) : processRecipient(m, i)
             \/ UNCHANGED systemVars
      PROVE  UNCHANGED vars
  BY <1>4 DEF Merge, Settle, processRecipient, systemVars
<1> QED
  BY <1>1, <1>2, <1>3, <1>4 DEF SystemNext

------------------------------------------------------------------------------
(***************************************************************************)
(* SystemInv is inductive.                                                 *)
(***************************************************************************)
\* Merged commits stay what they are (Merge appends).
LEMMA FromCommitStays ==
  ASSUME CommitInv, [SystemNext]_systemVars, NEW operation, FromCommit(operation)
  PROVE  FromCommit(operation)'
<1>1. CASE UNCHANGED commits
  BY <1>1 DEF FromCommit
<1>2. CASE \E tree \in DOMAIN Trees : Merge(tree)
  <2>1. PICK tree \in DOMAIN Trees : commits' = Append(commits, tree)
    BY <1>2 DEF Merge
  <2>2. /\ commits \in Seq(DOMAIN Trees)
        /\ operation.commit \in 1..Len(commits)
    BY DEF CommitInv, FromCommit
  <2>3. /\ operation.commit \in 1..Len(commits')
        /\ commits'[operation.commit] = commits[operation.commit]
    BY <2>1, <2>2
  <2> QED
    BY <2>3 DEF FromCommit
<1> QED
  BY <1>1, <1>2
  DEF SystemNext, systemVars, pipelineVars, Settle, publishCommand, LateStep, PublisherStep,
      processRecipient

\* The publisher's own steps keep the request of a run, or end it.
LEMMA RequestStays ==
  ASSUME GoodRuns, NEW p \in Publishers, PublisherStep(p), NEW o \in Publishers,
         run'[o].pc # "idle"
  PROVE  run[o].pc # "idle" /\ run'[o].request = run[o].request
<1> USE DEF GoodRuns
<1>1. CASE o # p
  BY <1>1 DEF PublisherStep, Upload, Properties, enqueueBatches, StatCurrent, DownloadCurrent,
              Stop, Become
<1>2. CASE o = p
  <2>1. Idle.pc = "idle"
    BY DEF Idle
  <2>2. \A pc, step, index : At(p, pc, step, index).request = run[p].request
    BY DEF At, Idle
  <2>3. ASSUME run[p].pc \in {"upload", "properties"}, Published(p).pc # "idle"
        PROVE  Published(p).request = run[p].request
    <3>1. run[p].step \in {"identity", "dar", "manifest", "batch", "current"}
      BY <2>3 DEF RunState, GoodRun, AtPlan
    <3> QED
      BY <2>1, <2>2, <2>3, <3>1 DEF Published, AfterBatch, AfterBatches
  <2>4. Conflicted(p).pc # "idle" => Conflicted(p).request = run[p].request
    BY <2>1 DEF Conflicted, RunState
  <2>5. PICK s : /\ run' = [run EXCEPT ![p] = s]
                 /\ s.pc # "idle" => s.request = run[p].request
                 /\ run[p].pc # "idle"
    <3>1. CASE Upload(p)
      BY <2>1, <2>3, <2>4, <3>1 DEF Upload, Become
    <3>2. CASE Properties(p)
      BY <2>1, <2>3, <3>2 DEF Properties, Become
    <3>3. CASE enqueueBatches(p)
      BY <2>2, <3>3 DEF enqueueBatches, Become
    <3>4. CASE StatCurrent(p)
      <4>1. \A etag, existing :
              [At(p, "download", "current", 0) EXCEPT !.etag = etag, !.existing = existing].request
                = run[p].request
        BY DEF At, Idle
      <4> QED
        BY <2>2, <3>4, <4>1 DEF StatCurrent, Become
    <3>5. CASE DownloadCurrent(p)
      <4>1. [run[p] EXCEPT !.pc = "upload"].request = run[p].request
        BY DEF RunState
      <4> QED
        BY <2>1, <3>5, <4>1 DEF DownloadCurrent, Become
    <3>6. CASE Stop(p)
      BY <2>1, <3>6 DEF Stop, Become
    <3> QED
      BY <3>1, <3>2, <3>3, <3>4, <3>5, <3>6 DEF PublisherStep
  <2> QED
    BY <1>2, <2>5
<1> QED
  BY <1>1, <1>2

\* A request for a merged commit and known addresses.
Stands(q) == FromCommit(deriveOperationID(q)) /\ Known(q.recipients)

\* Runs stand for merged commits: publishCommand takes one, and keeps to it.
LEMMA RunsFromCommits ==
  ASSUME SystemInv, [SystemNext]_systemVars, NEW o \in Publishers, run'[o].pc # "idle"
  PROVE  Stands(run'[o].request)
<1>1. /\ run \in [Publishers -> RunState]
      /\ \A p \in Publishers : run[p].pc # "idle" => Stands(run[p].request)
  BY DEF SystemInv, PlanInv, GoodRuns, CommitInv, Stands
<1>2. ASSUME NEW p \in Publishers, NEW commit \in 1..Len(commits), NEW cohort \in DOMAIN Files,
             publishCommand(p, commit, cohort)
      PROVE  Stands(run'[o].request)
  <2>1. /\ run' = [run EXCEPT ![p] = [Idle EXCEPT !.pc = "upload",
                                        !.request = requestOf(commit, cohort), !.step = "identity"]]
        /\ <<commits[commit], cohort>> \in Accepted
    BY <1>2 DEF publishCommand, Publish, Become
  <2>2. CASE o = p
    <3>1. run'[o].request = requestOf(commit, cohort)
      BY <1>1, <2>1, <2>2 DEF Idle
    <3>2. FromCommit([commit |-> commit, source |-> SourceTable[commits[commit]]])
      BY <2>1, RequestOfCommit DEF SystemInv, FromCommit
    <3> QED
      BY <2>1, <3>1, <3>2, RequestOfCommit DEF SystemInv, Stands
  <2>3. CASE o # p
    BY <1>1, <2>1, <2>3
  <2> QED
    BY <2>2, <2>3
<1>3. ASSUME NEW p \in Publishers, PublisherStep(p)
      PROVE  Stands(run'[o].request)
  BY <1>1, <1>3, RequestStays DEF SystemInv, PlanInv
<1>4. CASE UNCHANGED run
  BY <1>1, <1>4
<1> QED
  BY <1>2, <1>3, <1>4
  DEF SystemNext, systemVars, vars, Merge, Settle, LateStep, LateUpload, processRecipient

\* Consecutive recipients of a cohort.
Part(rows, q) ==
  \E first \in Nat : /\ first + Len(rows) <= Len(q.recipients)
                     /\ Len(rows) \in 1..q.batchSize
                     /\ \A j \in 1..Len(rows) : rows[j] = q.recipients[first + j]

\* A batch is a part of the cohort (buildBatches).
LEMMA BatchIsPart ==
  ASSUME NEW q \in Requests, NEW k \in 1..batchCount(q)
  PROVE  Part(buildBatches(q)[k], q)
  BY BatchRows DEF Part

\* The rows of a batch are recipients of its cohort (buildBatches).
LEMMA BatchRowsKnown ==
  ASSUME NEW q \in Requests, Known(q.recipients), NEW k \in 1..batchCount(q)
  PROVE  \A i \in 1..Len(buildBatches(q)[k]) : buildBatches(q)[k][i] \in Addresses
<1> DEFINE rows == buildBatches(q)[k]
<1>1. PICK first \in Nat : /\ first + Len(rows) <= Len(q.recipients)
                          /\ Len(rows) \in 1..q.batchSize
                          /\ \A j \in 1..Len(rows) : rows[j] = q.recipients[first + j]
  BY BatchIsPart DEF Part
<1>2. Len(q.recipients) \in Nat /\ q.batchSize \in 1..10
  BY RequestFacts
<1> HIDE DEF rows
<1>3. ASSUME NEW i \in 1..Len(rows) PROVE first + i \in 1..Len(q.recipients)
  BY <1>1, <1>2
<1> QED
  BY <1>1, <1>3 DEF Known, rows

\* Messages stand for merged commits, and the worker can parse them (enqueueBatches).
LEMMA MessagesFromCommits ==
  ASSUME SystemInv, [SystemNext]_systemVars
  PROVE  /\ sent \subseteq sent'
         /\ \A m \in sent' : /\ FromCommit(m.operationID) /\ ParseQueueMessageAllowed(m)
                             /\ Rows(m) \subseteq Addresses
<1>1. \A m \in sent : /\ FromCommit(m.operationID) /\ ParseQueueMessageAllowed(m)
                     /\ Rows(m) \subseteq Addresses
  BY DEF SystemInv, CommitInv
<1>2. ASSUME NEW p \in Publishers, enqueueBatches(p)
      PROVE  /\ sent \subseteq sent'
             /\ \A m \in sent' : /\ FromCommit(m.operationID) /\ ParseQueueMessageAllowed(m)
                                 /\ Rows(m) \subseteq Addresses
  <2>1. PICK m : /\ m = queueRequest(run[p].request, run[p].index)
                 /\ sent' = sent \cup {m} /\ ParseQueueMessageAllowed(m)
                 /\ run[p].pc = "send"
    BY <1>2 DEF enqueueBatches, SendMessage
  <2>2. m.operationID = deriveOperationID(run[p].request)
    BY <2>1 DEF queueRequest
  <2>3. FromCommit(m.operationID) /\ Known(run[p].request.recipients)
    BY <2>1, <2>2 DEF SystemInv, CommitInv
  <2>4. Rows(m) \subseteq Addresses
    <3>1. PICK q \in Requests : \E k \in 1..batchCount(q) :
            q = run[p].request /\ k = run[p].index
      BY <2>1 DEF SystemInv, PlanInv, GoodRuns, GoodRun, AtPlan, RunState
    <3>2. PICK k \in 1..batchCount(q) : q = run[p].request /\ k = run[p].index
      BY <3>1
    <3>3. m.batch.body.rows = buildBatches(q)[k]
      BY <2>1, <3>2 DEF queueRequest, BlobReference, BlobBody
    <3> QED
      BY <2>3, <3>2, <3>3, BatchRowsKnown DEF Rows
  <2> QED
    BY <1>1, <2>1, <2>3, <2>4
<1>3. CASE UNCHANGED sent
  BY <1>1, <1>3
<1> QED
  BY <1>2, <1>3
  DEF SystemNext, systemVars, vars, Merge, Settle, publishCommand, Publish, LateStep, LateUpload,
      PublisherStep, Upload, Properties, StatCurrent, DownloadCurrent, Stop, processRecipient

LEMMA SentIndex ==
  ASSUME PlanInv, NEW m \in sent
  PROVE  m.index \in Nat
<1>1. PICK q \in Requests, k \in Nat : FromPlan(m, q, k)
  BY SentFrom
<1> QED
  BY <1>1, MessageFields

\* A receipt is given by a row of a message (processRecipient).
LEMMA ReceiptsFromMessages ==
  ASSUME SystemInv, [SystemNext]_systemVars
  PROVE  /\ (receipts \in [Paths -> ReceiptState])'
         /\ \A path \in Paths :
              receipts'[path].index # 0 \/ mailed(path)' => \E m \in sent' : GaveReceipt(m, path)'
<1>1. /\ receipts \in [Paths -> ReceiptState] /\ sent \subseteq sent'
      /\ \A path \in Paths :
           receipts[path].index # 0 \/ mailed(path) => \E m \in sent : GaveReceipt(m, path)
  BY MessagesFromCommits DEF SystemInv, CommitInv
<1>2. CASE UNCHANGED receipts
  BY <1>1, <1>2 DEF mailed, GaveReceipt
<1>3. ASSUME NEW m \in sent, NEW i \in 1..Len(m.batch.body.rows), processRecipient(m, i)
      PROVE  /\ (receipts \in [Paths -> ReceiptState])'
             /\ \A path \in Paths :
                  receipts'[path].index # 0 \/ mailed(path)'
                    => \E n \in sent' : GaveReceipt(n, path)'
  <2>1. PICK status \in {"notified", "not notified"} :
          receipts' = [receipts EXCEPT ![PathOf(m, i)] = [index |-> m.index, status |-> status]]
    BY <1>3 DEF processRecipient
  <2>2. m.index \in Nat
    BY SentIndex DEF SystemInv
  <2>3. [index |-> m.index, status |-> status] \in ReceiptState
    BY <2>2 DEF ReceiptState
  <2>4. (receipts \in [Paths -> ReceiptState])'
    BY <1>1, <2>1, <2>3
  <2>5. ASSUME NEW path \in Paths, receipts'[path].index # 0 \/ mailed(path)'
        PROVE  \E n \in sent' : GaveReceipt(n, path)'
    <3>1. CASE path = PathOf(m, i)
      <4>1. receipts'[path].index = m.index
        BY <1>1, <2>1, <3>1
      <4>2. path[1] = m.operationID.commit /\ path[2] = m.batch.body.rows[i]
        BY <3>1 DEF PathOf
      <4>3. path[2] \in Rows(m)
        BY <4>2 DEF Rows
      <4> QED
        BY <1>1, <4>1, <4>2, <4>3 DEF GaveReceipt
    <3>2. CASE path # PathOf(m, i)
      <4>1. receipts'[path] = receipts[path]
        BY <1>1, <2>1, <3>2
      <4>2. receipts[path].index # 0 \/ mailed(path)
        BY <2>5, <4>1 DEF mailed
      <4> QED
        BY <1>1, <4>1, <4>2 DEF GaveReceipt
    <3> QED
      BY <3>1, <3>2
  <2> QED
    BY <2>4, <2>5
<1> QED
  BY <1>2, <1>3
  DEF SystemNext, systemVars, Merge, Settle, publishCommand, LateStep, PublisherStep

LEMMA SystemStep == SystemInv /\ [SystemNext]_systemVars => SystemInv'
<1> SUFFICES ASSUME SystemInv, [SystemNext]_systemVars PROVE SystemInv'
  OBVIOUS
<1>1. CommitInv /\ PlanInv
  BY DEF SystemInv
<1>2. PlanInv'
  BY <1>1, SystemStepIs, PlanStep
<1>3. (commits \in Seq(DOMAIN Trees) /\ Len(commits) <= MaxCommits)'
  <2>0. commits \in Seq(DOMAIN Trees) /\ Len(commits) <= MaxCommits
    BY <1>1 DEF CommitInv
  <2>1. CASE UNCHANGED commits
    BY <2>0, <2>1
  <2>2. ASSUME NEW tree \in DOMAIN Trees, Merge(tree)
        PROVE  (commits \in Seq(DOMAIN Trees) /\ Len(commits) <= MaxCommits)'
    BY <2>0, <2>2, DistributionAssumption DEF Merge
  <2> QED
    BY <2>1, <2>2
    DEF SystemNext, systemVars, pipelineVars, Settle, publishCommand, LateStep, PublisherStep,
        processRecipient
<1>4. ASSUME NEW p \in Publishers, (run[p].pc # "idle")'
      PROVE  FromCommit(deriveOperationID(run[p].request))' /\ Known(run'[p].request.recipients)
  <2>1. PICK operation : operation = deriveOperationID(run'[p].request)
    OBVIOUS
  <2>2. FromCommit(operation)' /\ Known(run'[p].request.recipients)
    BY <1>1, <1>4, <2>1, RunsFromCommits, FromCommitStays DEF Stands
  <2> QED
    BY <2>1, <2>2 DEF FromCommit
<1>5. ASSUME NEW m \in sent'
      PROVE  /\ FromCommit(m.operationID)' /\ ParseQueueMessageAllowed(m)
             /\ Rows(m) \subseteq Addresses
  BY <1>1, <1>5, MessagesFromCommits, FromCommitStays
<1>6. CommitInv'
  BY <1>3, <1>4, <1>5, ReceiptsFromMessages DEF CommitInv
<1> QED
  BY <1>2, <1>6 DEF SystemInv

LEMMA SystemInvInit == SystemInit => SystemInv
<1> SUFFICES ASSUME SystemInit PROVE SystemInv
  OBVIOUS
<1>1. PlanInv
  BY PlanInit DEF SystemInit
<1>2. commits \in Seq(DOMAIN Trees) /\ Len(commits) <= MaxCommits
  BY DistributionAssumption DEF SystemInit
<1>3. receipts \in [Paths -> ReceiptState]
  BY DEF SystemInit, ReceiptState
<1>4. \A path \in Paths : ~(receipts[path].index # 0 \/ mailed(path))
  BY DEF SystemInit, mailed
<1>5. /\ \A p \in Publishers : run[p].pc = "idle"
      /\ sent = {}
  BY DEF SystemInit, Init, Idle
<1> QED
  BY <1>1, <1>2, <1>3, <1>4, <1>5 DEF SystemInv, CommitInv

(***************************************************************************)
(* Runs and messages stand for merged commits, receipts for rows of        *)
(* messages, and all the publisher relies on holds (publishCommand,        *)
(* Publish, enqueueBatches, processRecipient).                             *)
(***************************************************************************)
THEOREM SystemInductive == SystemSpec => []SystemInv
  BY SystemInvInit, SystemStep, PTL DEF SystemSpec

(***************************************************************************)
(* The composition implements Publisher: what the pipeline gives it are    *)
(* its requests, and nothing else in the system touches what it writes.    *)
(* All that was proved of Publisher therefore holds of the composition.    *)
(***************************************************************************)
THEOREM SystemPublishes == SystemSpec => Spec
<1>1. SystemInit => Init
  BY DEF SystemInit
<1>2. SystemInv /\ [SystemNext]_systemVars => [Next]_vars
  BY SystemStepIs DEF SystemInv
<1> QED
  BY <1>1, <1>2, SystemInductive, PTL DEF SystemSpec, Spec

------------------------------------------------------------------------------
(***************************************************************************)
(* What follows for the recipients.                                        *)
(***************************************************************************)
\* What DiscoverSource says of an accepted commit.
LEMMA SourceFacts ==
  ASSUME NEW tree \in DOMAIN SourceTable
  PROVE  /\ SourceTable[tree].release = "dar"
         /\ SourceTable[tree].size \in 1 .. MaxArchiveBytes
<1>1. SourceTable[tree] = DiscoverSource(Trees[tree], "dar")
  BY DEF SourceTable
<1>2. PICK cohort \in DOMAIN Files : <<tree, cohort>> \in Accepted
  BY DEF SourceTable, Accepted
<1>3. DiscoverSourceAllowed(Trees[tree])
  BY <1>2 DEF Accepted, loadInputAllowed
<1>4. PICK archive : /\ highest(Trees[tree]).files = {archive}
                     /\ archive.size \in 1 .. MaxArchiveBytes
  BY <1>3 DEF DiscoverSourceAllowed
<1>5. (CHOOSE a \in highest(Trees[tree]).files : TRUE) = archive
  BY <1>4
<1> QED
  BY <1>1, <1>4, <1>5 DEF DiscoverSource

\* The message behind a mail, and its operation.
LEMMA MailedFrom ==
  ASSUME SystemInv, NEW path \in Paths, mailed(path)
  PROVE  \E m \in sent : /\ GaveReceipt(m, path)
                         /\ FromCommit(m.operationID)
                         /\ m.operationID.source = SourceTable[commits[path[1]]]
  BY DEF SystemInv, CommitInv, GaveReceipt, FromCommit

(***************************************************************************)
(* Whatever is merged, changed and repeated, a recipient is mailed about a *)
(* version at most once: two commits of a version cannot both have         *)
(* messages, because the identity blob keeps the version to one of them    *)
(* (publishIdentity).                                                      *)
(***************************************************************************)
THEOREM MailedOncePerVersion == SystemSpec => []OneMailPerVersion
<1>1. ASSUME SystemInv, OneIntentPerVersion, NEW c \in 1..Len(commits), NEW d \in 1..Len(commits),
             NEW r \in Addresses, mailed(<<c, r>>), mailed(<<d, r>>),
             SourceTable[commits[c]].version = SourceTable[commits[d]].version
      PROVE  c = d
  <2>1. <<c, r>> \in Paths /\ <<d, r>> \in Paths
    BY <1>1, DistributionAssumption DEF SystemInv, CommitInv, Paths
  <2>2. PICK m \in sent : /\ m.operationID.commit = c
                          /\ m.operationID.source = SourceTable[commits[c]]
                          /\ commits[c] \in DOMAIN SourceTable
    BY <1>1, <2>1, MailedFrom DEF GaveReceipt, FromCommit
  <2>3. PICK n \in sent : /\ n.operationID.commit = d
                          /\ n.operationID.source = SourceTable[commits[d]]
                          /\ commits[d] \in DOMAIN SourceTable
    BY <1>1, <2>1, MailedFrom DEF GaveReceipt, FromCommit
  <2>4. m.operationID.source.release = n.operationID.source.release
    BY <2>2, <2>3, SourceFacts
  <2>5. m.operationID = n.operationID
    BY <1>1, <2>2, <2>3, <2>4 DEF OneIntentPerVersion
  <2> QED
    BY <2>2, <2>3, <2>5
<1>2. SystemInv /\ OneIntentPerVersion => OneMailPerVersion
  BY <1>1 DEF OneMailPerVersion
<1> QED
  BY <1>2, SystemInductive, SystemPublishes, OneIntent, PTL

(***************************************************************************)
(* A link that was mailed works, now and later: the run that sent the      *)
(* message had stored the release file of that version with the digest of  *)
(* its operation, and nothing is written over it (publishDAR before        *)
(* enqueueBatches, PutImmutableFile).                                      *)
(***************************************************************************)
THEOREM MailedLinksWork == SystemSpec => []MailedIsDownloadable
<1>1. ASSUME SystemInv, NEW path \in Paths, mailed(path)
      PROVE  LET source == SourceTable[commits[path[1]]]
                 name == <<"releases", source.version>>
             IN  /\ name \in DOMAIN blobs /\ blobs[name].body.sha256 = source.dar
                 /\ source.size \in 1 .. MaxArchiveBytes
  <2> DEFINE source == SourceTable[commits[path[1]]]
  <2>1. PICK m \in sent : /\ m.operationID.source = source
                          /\ commits[path[1]] \in DOMAIN SourceTable
    BY <1>1, MailedFrom DEF GaveReceipt, FromCommit
  <2>2. PICK q \in Requests, i \in Nat : FromPlan(m, q, i)
    BY <1>1, <2>1, SentFrom DEF SystemInv
  <2>3. q.source = source
    <3>1. m.operationID = deriveOperationID(q)
      BY <2>2, MessageFields
    <3> QED
      BY <2>1, <3>1 DEF deriveOperationID
  <2>4. Has(q, "dar", 0)
    BY <2>2 DEF FromPlan, HasPlan
  <2>5. /\ <<"releases", q.source.version>> \in DOMAIN blobs
        /\ blobs[<<"releases", q.source.version>>].body.sha256 = q.source.dar
    BY <2>4 DEF Has, BlobName, BlobBody
  <2>6. source.size \in 1 .. MaxArchiveBytes
    BY <2>1, SourceFacts
  <2> QED
    BY <2>3, <2>5, <2>6
<1>2. SystemInv => MailedIsDownloadable
  BY <1>1 DEF MailedIsDownloadable
<1> QED
  BY <1>2, SystemInductive, PTL

------------------------------------------------------------------------------
(***************************************************************************)
(* What one stage accepts the next one takes.                              *)
(***************************************************************************)
\* The plan refuses what loadInput accepts only for its size or its number of batches.
LEMMA PlanTakesInput ==
  ASSUME CommitInv, NEW c \in 1..Len(commits), NEW cohort \in DOMAIN Files,
         <<commits[c], cohort>> \in Accepted,
         NEW q, q = requestOf(c, cohort),
         batchCount(q) <= MaxBatches,
         \A i \in 1..Len(q.recipients) : ~(RowBytes(q.recipients[i]) > MaxRowBytes)
  PROVE  planAllowed(q)
<1>1. q \in Requests
  BY RequestOfCommit
<1>2. ParseRecipientsAllowed(Files[cohort])
  BY DEF Accepted, loadInputAllowed
<1>3. q.recipients = ParseRecipients(Files[cohort])
  BY RequestOfCommit
<1>4. /\ q.recipients \in Seq(Nat) /\ Len(q.recipients) \in Nat /\ Len(q.recipients) > 0
      /\ \A i, j \in 1..Len(q.recipients) : i < j => q.recipients[i] < q.recipients[j]
  BY <1>1, <1>2, <1>3, CohortIsOrdered, RequestFacts
<1>5. validRecipients(q.recipients)
  <2> SUFFICES ASSUME NEW i \in 1..Len(q.recipients)
               PROVE  /\ RowBytes(q.recipients[i]) <= MaxRowBytes
                      /\ i > 1 => q.recipients[i - 1] < q.recipients[i]
    BY DEF validRecipients, ParseRecipientAllowed
  <2>1. RowBytes(q.recipients[i]) \in Nat /\ MaxRowBytes \in Nat
    BY <1>1, PublisherAssumption, ContractsAssumption
  <2>2. RowBytes(q.recipients[i]) <= MaxRowBytes
    BY <2>1
  <2>3. ASSUME i > 1 PROVE q.recipients[i - 1] < q.recipients[i]
    <3>1. i - 1 \in 1..Len(q.recipients) /\ i - 1 < i
      BY <1>4, <2>3
    <3> QED
      BY <1>4, <3>1
  <2> QED
    BY <2>2, <2>3
<1>6. batchCount(q) \in 1..MaxBatches
  <2>1. batchCount(q) \in Nat /\ q.batchSize \in 1..10 /\ MaxBatches \in Nat
    BY <1>1, RequestFacts, ContractsAssumption
  <2>2. PICK k \in 1..batchCount(q) : TRUE
    <3>1. PICK n \in Nat, b \in 1..10 : n = Len(q.recipients) /\ b = q.batchSize
      BY <1>4, <2>1
    <3>2. 1 \in 1..n
      BY <1>4, <3>1
    <3>3. \E i \in 1..((n + b - 1) \div b) : (i - 1) * b < 1 /\ 1 <= i * b
      BY <3>2, BatchOf
    <3> QED
      BY <3>1, <3>3 DEF batchCount
  <2> QED
    BY <2>1, <2>2
<1>7. q.recipients # << >>
  BY <1>4
<1> QED
  BY <1>5, <1>6, <1>7 DEF planAllowed

\* Messages of one commit are messages of one operation.
LEMMA OneOperation ==
  ASSUME SystemInv, NEW m \in sent, NEW n \in sent, m.operationID.commit = n.operationID.commit
  PROVE  m.operationID = n.operationID
<1>1. m.operationID.source = n.operationID.source
  BY DEF SystemInv, CommitInv, FromCommit
<1>2. PICK q \in Requests, i \in Nat : FromPlan(m, q, i)
  BY SentFrom DEF SystemInv
<1>3. PICK z \in Requests, j \in Nat : FromPlan(n, z, j)
  BY SentFrom DEF SystemInv
<1>4. m.operationID = deriveOperationID(q) /\ n.operationID = deriveOperationID(z)
  BY <1>2, <1>3, MessageFields
<1> QED
  BY <1>1, <1>4 DEF deriveOperationID

\* What a receipt remembers is the message the address belongs to.
LEMMA ReceiptsMatch ==
  ASSUME SystemInv, BatchesDisjoint, NEW m \in sent, NEW i \in 1..Len(m.batch.body.rows)
  PROVE  receiptMatches(m, PathOf(m, i))
<1> DEFINE path == PathOf(m, i)
           r == m.batch.body.rows[i]
<1>1. path[1] = m.operationID.commit /\ path[2] = r /\ r \in Rows(m) /\ r \in Addresses
  BY DEF PathOf, Rows, SystemInv, CommitInv
<1>2. path \in Paths
  <2>1. m.operationID.commit \in 1..MaxCommits
    BY DistributionAssumption DEF SystemInv, CommitInv, FromCommit
  <2> QED
    BY <1>1, <2>1 DEF PathOf, Paths
<1> HIDE DEF path, r
<1>3. CASE receipts[path].index = 0
  BY <1>3 DEF receiptMatches, path
<1>4. CASE receipts[path].index # 0
  <2>1. PICK n \in sent : GaveReceipt(n, path)
    BY <1>2, <1>4 DEF SystemInv, CommitInv
  <2>2. n.operationID = m.operationID
    BY <1>1, <2>1, OneOperation DEF GaveReceipt
  <2>3. r \in Rows(n)
    BY <1>1, <2>1 DEF GaveReceipt
  <2>4. m.index = n.index
    BY <1>1, <2>2, <2>3 DEF BatchesDisjoint
  <2> QED
    BY <2>1, <2>4 DEF receiptMatches, GaveReceipt, path
<1> QED
  BY <1>3, <1>4

\* The worker takes every message but one with a row of the greatest length.
LEMMA WorkerTakes ==
  ASSUME SystemInv, BatchesDisjoint, MessageIsServable, NEW m \in sent,
         \A r \in Rows(m) : RowBytes(r) # MaxRowBytes
  PROVE  ~Rejects(m)
<1> DEFINE rows == m.batch.body.rows
<1>1. PICK q \in Requests, k \in Nat : FromPlan(m, q, k)
  BY SentFrom DEF SystemInv
<1>2. ParseQueueMessageAllowed(m)
  BY DEF SystemInv, CommitInv
<1>3. Matches(m.manifest) /\ Matches(m.batch) /\ Len(rows) = m.recipientCount
  BY DEF MessageIsServable, Matches
<1>4. manifestMatchesMessage(m.manifest.body, m)
  <2>1. m.manifest.body = Manifest(q) /\ m.operationID = deriveOperationID(q)
    BY <1>1, MessageFields
  <2>2. m.releaseVersion = q.source.version
    BY <1>1 DEF FromPlan, queueRequest
  <2> QED
    BY <2>1, <2>2 DEF manifestMatchesMessage, Manifest
<1>5. scanRecipientRowsAllowed(rows)
  <2>1. k \in 1..batchCount(q) /\ planAllowed(q) /\ rows = buildBatches(q)[k]
    BY <1>1, MessageFields DEF FromPlan
  <2>2. PICK first \in Nat : /\ first + Len(rows) <= Len(q.recipients)
                             /\ Len(rows) \in 1..q.batchSize
                             /\ \A j \in 1..Len(rows) : rows[j] = q.recipients[first + j]
    <3> HIDE DEF rows
    <3>1. Part(rows, q)
      BY <2>1, BatchIsPart
    <3> QED
      BY <3>1 DEF Part
  <2>3. Len(q.recipients) \in Nat /\ q.batchSize \in 1..10
    BY RequestFacts
  <2>4. rows # << >>
    BY <2>2, <2>3
  <2>5. ASSUME NEW i \in 1..Len(rows)
        PROVE  RowBytes(rows[i]) + 1 <= MaxRowBytes /\ ParseRecipientAllowed(rows[i])
    <3> HIDE DEF rows
    <3>1. first + i \in 1..Len(q.recipients) /\ rows[i] = q.recipients[first + i]
      BY <2>2, <2>3
    <3>2. ParseRecipientAllowed(rows[i])
      BY <2>1, <3>1 DEF planAllowed, validRecipients
    <3>3. RowBytes(rows[i]) \in Nat /\ MaxRowBytes \in Nat
      BY <3>1, PublisherAssumption, ContractsAssumption
    <3>4. RowBytes(rows[i]) # MaxRowBytes
      BY DEF Rows, rows
    <3> QED
      BY <3>2, <3>3, <3>4 DEF ParseRecipientAllowed
  <2> QED
    BY <2>4, <2>5 DEF scanRecipientRowsAllowed
<1>6. ProcessAllowed(m)
  BY <1>2, <1>3, <1>4, <1>5 DEF ProcessAllowed, validateBatch
<1> QED
  BY <1>6, ReceiptsMatch DEF Rejects

(***************************************************************************)
(* What one stage accepts the next one takes, but for three limits: an     *)
(* accepted commit and file are refused by plan only for a row longer than *)
(* MaxRowBytes or for too many batches, and a message on the queue is      *)
(* refused by the worker only for a row of exactly MaxRowBytes             *)
(* (ParseRecipients, plan, enqueueBatches, Process).                       *)
(***************************************************************************)
THEOREM StagesAgree == SystemSpec => []OnlyLimitsFallThrough
<1>1. ASSUME SystemInv, NEW c \in 1..Len(commits), NEW cohort \in DOMAIN Files,
             <<commits[c], cohort>> \in Accepted,
             ~planAllowed(requestOf(c, cohort))
      PROVE  LET q == requestOf(c, cohort) IN
             \/ batchCount(q) > MaxBatches
             \/ \E i \in 1..Len(q.recipients) : RowBytes(q.recipients[i]) > MaxRowBytes
  <2>1. PICK q : q = requestOf(c, cohort)
    OBVIOUS
  <2>2. q \in Requests
    BY <1>1, <2>1, RequestOfCommit DEF SystemInv
  <2>3. batchCount(q) \in Nat /\ MaxBatches \in Nat
    BY <2>2, RequestFacts, ContractsAssumption
  <2>4. batchCount(q) <= MaxBatches \/ batchCount(q) > MaxBatches
    BY <2>3
  <2> QED
    BY <1>1, <2>1, <2>4, PlanTakesInput DEF SystemInv
<1>2. ASSUME SystemInv, BatchesDisjoint, MessageIsServable, NEW m \in sent, Rejects(m)
      PROVE  \E r \in Rows(m) : RowBytes(r) = MaxRowBytes
  BY <1>2, WorkerTakes
<1>3. SystemInv /\ BatchesDisjoint /\ MessageIsServable => OnlyLimitsFallThrough
  BY <1>1, <1>2 DEF OnlyLimitsFallThrough
<1> QED
  BY <1>3, SystemInductive, SystemPublishes, BatchesStayDisjoint, MessagesServable, PTL
==============================================================================
