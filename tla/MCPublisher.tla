----------------------------- MODULE MCPublisher -----------------------------
(***************************************************************************)
(* Small instances of Publisher: two worlds of requests, of which one is   *)
(* chosen at the start.                                                    *)
(***************************************************************************)
EXTENDS Publisher, TLC

ShortRow(recipient) == 1

PublisherSymmetry == Permutations(Publishers)

Source(version, dar) == [release |-> "dar", version |-> version, dar |-> dar]

Request(source, commit, recipients, batchSize) ==
  [source |-> source, commit |-> commit, createdAt |-> 0,
   recipients |-> recipients, batchSize |-> batchSize]

\* One operation, repeated with another cohort, another batch size or another
\* date, and the same version from another commit, with the same artifact or
\* with another.
FirstRun == Request(Source(1, "d1"), "c1", <<1, 2, 3>>, 2)
ReplayRequests ==
  {FirstRun,
   [FirstRun EXCEPT !.recipients = <<1, 2>>, !.batchSize = 3],
   [FirstRun EXCEPT !.recipients = <<2, 3>>],
   [FirstRun EXCEPT !.recipients = <<1, 2, 4, 5>>],
   [FirstRun EXCEPT !.batchSize = 1],
   [FirstRun EXCEPT !.createdAt = 1],
   [FirstRun EXCEPT !.commit = "c2", !.recipients = <<2>>],
   [FirstRun EXCEPT !.commit = "c2", !.source.dar = "d2"],
   [FirstRun EXCEPT !.recipients = <<2, 1>>]}

\* Three versions of a release.
VersionRequests ==
  {Request(Source(1, "d1"), "c1", <<1>>, 2),
   Request(Source(2, "d2"), "c2", <<1>>, 2),
   Request(Source(3, "d3"), "c3", <<1>>, 2)}

VARIABLE world  \* the requests of this behaviour

Worlds == {ReplayRequests, VersionRequests}

MCRequests == ReplayRequests \cup VersionRequests

OfThisWorld == \A p \in Publishers : run[p].pc # "idle" => run[p].request \in world

MCInit == Init /\ world \in Worlds

MCNext == Next /\ UNCHANGED world /\ OfThisWorld'

MCSpec == MCInit /\ [][MCNext]_<<vars, world>>
==============================================================================
