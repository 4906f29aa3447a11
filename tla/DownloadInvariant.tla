-------------------------- MODULE DownloadInvariant --------------------------
(***************************************************************************)
(* The inductive invariant behind the safety properties of Download.       *)
(*                                                                         *)
(* The properties speak of the bytes of a response and of the client's     *)
(* file; they hold because of what the handler keeps between two storage   *)
(* calls: the selection of the one metadata read, how much of it is        *)
(* written, and from which version the open segment comes.                 *)
(***************************************************************************)
EXTENDS Download

Selections == [allowed : BOOLEAN, offset : Nat, length : Nat, partial : BOOLEAN]

Bytes == Nat \X Nat

Steps == {"idle", "stat", "open", "copy", "done"}

Statuses == {0, 200, 206, 404, 413, 416, 502}

Outcomes ==
  {"none", "STREAM_COMPLETED", "STREAM_ABANDONED", "STREAM_FAILED", "STORAGE_UNAVAILABLE"}

RequestState ==
  [pc        : Steps,
   range     : RangeHeaders,
   validator : Nat \cup {Unusable},
   resume    : BOOLEAN,
   etag      : Nat,
   size      : Nat,
   selection : Selections,
   offset    : Nat,
   remaining : Nat,
   opened    : Nat,
   status    : Statuses,
   announced : Nat,
   body      : Seq(Bytes),
   outcome   : Outcomes]

Files == [etag : Nat, total : Nat \cup {Absent}, bytes : Seq(Bytes)]

TypeInv ==
  /\ object \in [there : BOOLEAN, etag : Nat \ {0}, size : Nat]
  /\ request \in RequestState
  /\ left \in BOOLEAN
  /\ server \in {"serving", "stopping", "down"}
  /\ client \in Files

(***************************************************************************)
(* The selection is the one Select made of the object that the metadata    *)
(* read found, or there is none yet.                                       *)
(***************************************************************************)
Selected(r) ==
  r.selection = IF r.etag = 0 THEN Invalid ELSE Select(r.range, r.validator, r.size, r.etag)

\* Before the metadata read, and after one that failed, nothing was written.
NothingYet(r) ==
  /\ r.pc \in {"idle", "stat"} => r.etag = 0 /\ r.status = 0 /\ r.outcome = "none"
  /\ r.etag = 0 => /\ r.body = << >>
                   /\ r.announced = 0
                   /\ r.outcome # "STREAM_COMPLETED"

\* Between two storage calls: what is written and what remains make up the selection.
InStream(r) ==
  /\ r.pc \in {"open", "copy"} =>
       /\ r.etag # 0 /\ r.selection.allowed /\ r.outcome = "none"
       /\ r.remaining > 0
       /\ Len(r.body) + r.remaining = r.selection.length
       /\ r.offset = r.selection.offset + Len(r.body)
       /\ r.status \in {0, 200, 206}
       /\ r.status # 0 => r.announced # 0
  /\ r.pc = "copy" => r.opened = r.etag /\ r.status # 0

\* With the headers comes a status line that tells a partial answer from a whole
\* one; an answer without them has no byte and is not partial.
StatusIsMeant(r) ==
  /\ r.announced # 0 => /\ r.announced = r.etag
                        /\ r.selection.allowed
                        /\ r.status = IF r.selection.partial THEN 206 ELSE 200
  /\ r.announced = 0 => r.body = << >> /\ r.status # 206

\* A resumption asks for what follows the client's bytes, of their version.
AsksForRest(r, c) ==
  /\ c.bytes # << >> => c.etag # 0
  /\ r.resume => /\ c.bytes # << >>
                 /\ r.range = RangeHeader(Len(c.bytes), Absent)
                 /\ r.validator = c.etag

\* What is written is the beginning of the selection, of the version of the
\* metadata read.
BodyIsSelected ==
  /\ Len(request.body) <= request.selection.length
  /\ \A i \in 1..Len(request.body) :
       request.body[i] = Byte(request.etag, request.selection.offset + i - 1)

\* The client's file is a prefix of the version it was promised under.
FileIsPrefix ==
  \A i \in 1..Len(client.bytes) : client.bytes[i] = Byte(client.etag, i - 1)

(***************************************************************************)
(* The inductive invariant: what stream relies on between two segments,    *)
(* and what the client's If-Range relies on between two requests.          *)
(***************************************************************************)
StreamInv ==
  /\ TypeInv
  /\ Selected(request)
  /\ NothingYet(request)
  /\ InStream(request)
  /\ StatusIsMeant(request)
  /\ AsksForRest(request, client)
  /\ BodyIsSelected
  /\ CompletedIsWhole
  /\ FileIsPrefix

(***************************************************************************)
(* A version has one size: the size that the handler read and the length   *)
(* that the client was promised under the same ETag agree with each other, *)
(* and with the object while it is that version; and the file never grows  *)
(* over the length promised for it.                                        *)
(***************************************************************************)
SizesAgree ==
  /\ request.etag <= object.etag /\ client.etag <= object.etag
  /\ request.etag = object.etag => request.size = object.size
  /\ client.etag = object.etag => client.total = object.size
  /\ request.etag # 0 /\ request.etag = client.etag => request.size = client.total
  /\ client.etag # 0 => Len(client.bytes) <= client.total

------------------------------------------------------------------------------
\* The handler takes a request from state r to state s.
Onward(r, s) ==
  \/ r.pc = "idle" /\ s.pc = "stat"
  \/ r.pc = "done" /\ s = Idle
  \/ r.pc \in {"stat", "open", "copy"} /\ s.pc = "done"
  \/ r.pc = "stat" /\ s.pc = "open"
  \/ r.pc = "open" /\ s.pc = "copy" /\ s.remaining = r.remaining
  \/ r.pc = "copy" /\ s.pc = "open" /\ s.remaining < r.remaining

\* What r has sent is the beginning of what s has sent.
StillSent(r, s) ==
  /\ r.status # 0 => s.status = r.status
  /\ Len(r.body) <= Len(s.body)
  /\ \A i \in 1..Len(r.body) : s.body[i] = r.body[i]

(***************************************************************************)
(* A response ends: every step of the handler takes it from the metadata   *)
(* read to a segment, from a segment to its copy, from a copy to a shorter *)
(* rest, or to its end (stream).                                           *)
(***************************************************************************)
StreamsAdvance == [][request' # request => Onward(request, request')]_vars

(***************************************************************************)
(* What has been sent stays sent: until the response is over its status    *)
(* line, once written, is never written again, whatever fails later, and   *)
(* the bytes already written stand (stream, writeStorageError).            *)
(***************************************************************************)
SentStays == [][request'.pc # "idle" => StillSent(request, request')]_vars
==============================================================================
