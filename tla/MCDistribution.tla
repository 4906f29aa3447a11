---------------------------- MODULE MCDistribution ----------------------------
(***************************************************************************)
(* A small instance of Distribution.                                       *)
(***************************************************************************)
EXTENDS Distribution

Member(name, extension, size) ==
  [canonicalName |-> name, proper |-> TRUE, dir |-> FALSE, extension |-> extension,
   size |-> size, written |-> size]

Archive(sha256) ==
  [kind |-> "file", downloadName |-> TRUE, sha256 |-> sha256, size |-> 2,
   members |-> <<Member("product", ".dar", 2), Member("guide", ".pdf", 1)>>]

Folder(version, archive) == [kind |-> "folder", version |-> version, files |-> {archive}]

Readme == [kind |-> "README.md", version |-> NoVersion, files |-> {}]

\* A first release, the same version with another archive, a second release,
\* and one that is refused, since it unpacks to more than the limit.
First == {Readme, Folder(1, Archive("d1"))}
MCTrees ==
  [first   |-> First,
   changed |-> {Readme, Folder(1, Archive("d2"))},
   second  |-> First \cup {Folder(2, Archive("d3"))},
   large   |-> First \cup {Folder(2, [Archive("d4") EXCEPT !.members = @ \o <<Member("notes", ".md", 2)>>])}]

Row(email, spelling) == [email |-> email, spelling |-> spelling, proper |-> TRUE]
Cohort(rows) == [proper |-> TRUE, rows |-> rows]

\* Row lengths around the limit of two: 3 is as long as it, 4 is longer.
MCRowBytes(recipient) == CASE recipient = 3 -> 2 [] recipient = 4 -> 3 [] OTHER -> 1

\* Two batches at most, of one recipient.
MCFiles ==
  [one      |-> Cohort(<<Row(2, "plain")>>),
   long     |-> Cohort(<<Row(3, "plain"), Row(1, "plain")>>),
   longer   |-> Cohort(<<Row(4, "plain")>>),
   many     |-> Cohort(<<Row(2, "plain"), Row(1, "plain"), Row(3, "plain")>>),
   repeated |-> Cohort(<<Row(1, "plain"), Row(1, "capital")>>)]

MCRequests == {RequestTable[x] : x \in DOMAIN RequestTable}
==============================================================================
