-------------------------------- MODULE Source --------------------------------
(***************************************************************************)
(* What a pipeline run reads before it publishes (internal/publication/    *)
(* source.go, loadInput of cmd/dar-release-publisher): the releases folder *)
(* of the commit, the ZIP of its highest version, and the protected file   *)
(* of recipients.                                                          *)
(*                                                                         *)
(* Names are abstract: a version is a number, or NoVersion for a name that *)
(* the pattern refuses; a member or a row is proper if its characters and  *)
(* flags are.  An address has one canonical form and several spellings.    *)
(*                                                                         *)
(* A definition named ...Slip is a plausible mistake in the one after it;  *)
(* no specification uses it.                                               *)
(***************************************************************************)
EXTENDS Integers, Sequences, FiniteSets, FiniteSetsExt, Functions

CONSTANTS
  MaxArchiveBytes,       \* maxArchiveBytes, the limit of the download app too
  MaxArchiveEntries,     \* maxArchiveEntries
  MaxUncompressedBytes   \* maxUncompressedBytes

ASSUME SourceAssumption ==
  {MaxArchiveBytes, MaxArchiveEntries, MaxUncompressedBytes} \subseteq Nat

NoVersion == -1

allowedGuideExtensions == {".docx", ".md", ".pdf", ".txt"}

\* Members are read in order; the sizes of the files before a member are
\* taken off the limit before its own is compared with the rest.
validateReleaseZIP(members) ==
  LET files == {i \in 1..Len(members) : ~members[i].dir}
      dars == {i \in files : members[i].extension = ".dar"}
      total(i) == MapThenSumSet(LAMBDA j : members[j].size, {j \in files : j < i})
  IN  /\ Len(members) \in 1 .. MaxArchiveEntries
      /\ \A i \in 1..Len(members) : members[i].proper
      /\ \A i, j \in 1..Len(members) : members[i].canonicalName = members[j].canonicalName => i = j
      /\ \A i \in files :
           /\ members[i].size <= MaxUncompressedBytes - total(i)
           /\ members[i].extension \in allowedGuideExtensions \cup {".dar"}
           /\ members[i].written = members[i].size
      /\ \A i \in dars : members[i].size >= 1
      /\ Cardinality(dars) = 1

\* The entries of releases/ that may hold a release.
candidates(tree) == {entry \in tree : entry.kind # "README.md"}

highest(tree) == CHOOSE c \in candidates(tree) : \A d \in candidates(tree) : d.version <= c.version

DiscoverSourceAllowed(tree) ==
  /\ candidates(tree) # {}
  /\ \A c \in candidates(tree) : c.kind = "folder" /\ c.version # NoVersion
  /\ \E archive \in highest(tree).files :
       /\ highest(tree).files = {archive}
       /\ archive.kind = "file" /\ archive.downloadName
       /\ archive.size \in 1 .. MaxArchiveBytes
       /\ validateReleaseZIP(archive.members)

DiscoverSource(tree, releaseID) ==
  LET archive == CHOOSE a \in highest(tree).files : TRUE
  IN  [release |-> releaseID, version |-> highest(tree).version,
       dar |-> archive.sha256, size |-> archive.size]

\* Duplicates are looked for before addresses are lower-cased.
duplicateSlip(left, right) == left = right

duplicate(left, right) == left.email = right.email

\* file.proper: its size, characters, line ends and header are.
ParseRecipientsAllowed(file) ==
  /\ file.proper /\ file.rows # << >>
  /\ \A i \in 1..Len(file.rows) : file.rows[i].proper
  /\ \A i, j \in 1..Len(file.rows) : i # j => ~duplicate(file.rows[i], file.rows[j])

\* The rows in an order in which they are sorted.
sorted(rows, p) ==
  \A i, j \in 1..Len(rows) : i < j => rows[p[i]].email <= rows[p[j]].email

ParseRecipients(file) ==
  LET positions == 1..Len(file.rows)
      order == CHOOSE p \in Bijection(positions, positions) : sorted(file.rows, p)
  IN  [i \in positions |-> file.rows[order[i]].email]

loadInputAllowed(tree, file) == DiscoverSourceAllowed(tree) /\ ParseRecipientsAllowed(file)
==============================================================================
