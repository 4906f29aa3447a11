------------------------------- MODULE Download -------------------------------
(***************************************************************************)
(* The download handler (internal/httpapi/handler.go, internal/blob/       *)
(* azure.go): one metadata read, then segments that are opened under the   *)
(* ETag of that read, while the object is replaced or deleted, the store   *)
(* fails, the client leaves, and the server is stopped and started         *)
(* (cmd/dar-download/main.go).                                             *)
(*                                                                         *)
(* One request at a time: requests share nothing but the object.  The      *)
(* client keeps what it received and may ask for the rest later, with      *)
(* If-Range, as the HTTP contract of the handler invites it to.  It knows  *)
(* of a version only what the headers of its answers said.                 *)
(*                                                                         *)
(* A definition named ...Slip is a plausible mistake in the one after it;  *)
(* no specification uses it.                                               *)
(***************************************************************************)
EXTENDS RangeSelect, Sequences

CONSTANTS
  Sizes,              \* sizes the object may have
  Ranges,             \* Range headers a fresh request may carry
  MaxObjectSize,      \* config.MaxObjectSize
  MaxStorageSegment,  \* config.MaxStorageSegment
  MaxVersion          \* bound: how often the object is written

ASSUME DownloadAssumption ==
  /\ Sizes \subseteq Nat /\ Sizes # {}
  /\ Ranges \subseteq RangeHeaders
  /\ MaxObjectSize \in Nat
  /\ MaxStorageSegment \in Nat \ {0}
  /\ MaxVersion \in Nat \ {0}

VARIABLES
  object,   \* the object: its ETag, a version number, its size, and whether it is there
  request,  \* the request being served
  left,     \* the client has gone
  server,   \* the process: "serving", "stopping" after a signal, or "down"
  client    \* the client's file: the ETag and the length it was promised under, its bytes

vars == <<object, request, left, server, client>>

\* Every byte of a version is told apart from every other byte.
Byte(etag, position) == <<etag, position>>

Idle ==
  [pc |-> "idle", range |-> [kind |-> "none"], validator |-> NoValidator, resume |-> FALSE,
   etag |-> 0, size |-> 0, selection |-> Invalid, offset |-> 0, remaining |-> 0,
   opened |-> 0, status |-> 0, announced |-> 0, body |-> << >>, outcome |-> "none"]

Init ==
  /\ \E size \in Sizes : object = [there |-> TRUE, etag |-> 1, size |-> size]
  /\ request = Idle
  /\ left = FALSE
  /\ server = "serving"
  /\ client = [etag |-> 0, total |-> Absent, bytes |-> << >>]

------------------------------------------------------------------------------
(***************************************************************************)
(* The world around the handler.                                           *)
(***************************************************************************)
Replace(size) ==
  /\ object.etag < MaxVersion
  /\ object' = [there |-> TRUE, etag |-> object.etag + 1, size |-> size]
  /\ UNCHANGED <<request, left, server, client>>

Delete ==
  /\ object.there
  /\ object' = [object EXCEPT !.there = FALSE]
  /\ UNCHANGED <<request, left, server, client>>

Ask(range, validator) ==
  /\ request.pc = "idle" /\ server # "down"
  /\ request' = [Idle EXCEPT !.pc = "stat", !.range = range, !.validator = validator]
  /\ left' = FALSE
  /\ UNCHANGED <<object, server, client>>

\* Ask for the rest of what the client holds.
Resume ==
  /\ request.pc = "idle" /\ server # "down"
  /\ client.bytes # << >>
  /\ request' = [Idle EXCEPT !.pc = "stat", !.resume = TRUE,
                             !.range = RangeHeader(Len(client.bytes), Absent),
                             !.validator = client.etag]
  /\ left' = FALSE
  /\ UNCHANGED <<object, server, client>>

Leave ==
  /\ request.pc # "idle" /\ ~left
  /\ left' = TRUE
  /\ UNCHANGED <<object, request, server, client>>

------------------------------------------------------------------------------
(***************************************************************************)
(* The handler.                                                            *)
(***************************************************************************)
\* request.Context(): the client's connection, and the server's base context,
\* which a signal cancels for all requests, also those still accepted.
cancelled == left \/ server = "stopping"

Respond(status) == [request EXCEPT !.pc = "done", !.status = status]

(***************************************************************************)
(* What a failed storage call is reported as.  A deadline need not be the  *)
(* request's: the storage client has timeouts of its own.                  *)
(***************************************************************************)
translateError ==
  {err \in {"unavailable", "deadline", "not found"} : err = "not found" => ~object.there}

(***************************************************************************)
(* A storage error before the headers.  After a cancellation or a deadline *)
(* the handler returns without writing anything, and net/http answers for  *)
(* it: 200, Content-Length 0, no ETag.                                     *)
(***************************************************************************)
writeStorageError(err) ==
  Respond(IF cancelled \/ err = "deadline" THEN 200 ELSE IF err = "not found" THEN 404 ELSE 502)

\* setDownloadHeaders announces the ETag of the metadata read (announced) with
\* the length of the selection; an answer without its headers announces no byte.
ContentLength(r) == IF r.announced = 0 THEN 0 ELSE r.selection.length

End(outcome) == [request EXCEPT !.pc = "done", !.outcome = outcome]

\* The metadata read finds the object; its answer is one size and one ETag.
StatAllowed == object.there

\* Stat, then Select; a selection without bytes needs no storage read.
Stat ==
  LET selection == Select(request.range, request.validator, object.size, object.etag)
      accepted == [request EXCEPT !.etag = object.etag, !.size = object.size,
                                  !.selection = selection]
  IN
  /\ request.pc = "stat"
  /\ \/ \E err \in translateError : request' = writeStorageError(err)
     \/ /\ StatAllowed
        /\ object.size > MaxObjectSize
        /\ request' = Respond(413)
     \/ /\ StatAllowed
        /\ object.size <= MaxObjectSize
        /\ \/ /\ ~selection.allowed
              /\ request' = [accepted EXCEPT !.pc = "done", !.status = 416]
           \/ /\ selection.allowed
              /\ selection.length = 0
              /\ request' = [accepted EXCEPT !.pc = "done", !.status = 200,
                                             !.announced = object.etag,
                                             !.outcome = "STREAM_COMPLETED"]
           \/ /\ selection.allowed
              /\ selection.length > 0
              /\ request' = [accepted EXCEPT !.pc = "open", !.offset = selection.offset,
                                             !.remaining = selection.length]
  /\ UNCHANGED <<object, left, server, client>>

SegmentLength == Smaller(request.remaining, MaxStorageSegment)

\* The read carries no condition, and the ETag of the answer is not looked at.
OpenRangeAllowedSlip(etag, offset, length) ==
  object.there /\ object.size >= offset + length

\* If-Match, and the answer is as long as asked and carries the same ETag.
OpenRangeAllowed(etag, offset, length) ==
  /\ offset <= MaxObjectSize
  /\ length \in 1..MaxStorageSegment
  /\ object.there /\ object.etag = etag
  /\ object.size >= offset + length

\* The first segment decides the status line; after it an error ends the stream.
OpenFailed(err) ==
  IF request.status = 0
  THEN [writeStorageError(err) EXCEPT !.outcome = "STORAGE_UNAVAILABLE"]
  ELSE End("STREAM_FAILED")

\* The context is looked at before every segment but the first.
SeesCancellation == cancelled /\ request.status # 0

OpenRange ==
  /\ request.pc = "open"
  /\ \/ /\ SeesCancellation
        /\ request' = End("STREAM_ABANDONED")
     \/ /\ ~SeesCancellation
        /\ OpenRangeAllowed(request.etag, request.offset, SegmentLength)
        /\ request' = [request EXCEPT !.pc = "copy", !.opened = object.etag,
                         !.announced = request.etag,
                         !.status = IF request.selection.partial THEN 206 ELSE 200]
     \/ /\ ~SeesCancellation
        /\ \E err \in translateError : request' = OpenFailed(err)
  /\ UNCHANGED <<object, left, server, client>>

\* A copy that ends early is taken for a whole one.
copiedSlip(count, closed) == closed

copied(count, closed) == count = SegmentLength /\ closed

streamFailureOutcome == IF cancelled THEN "STREAM_ABANDONED" ELSE "STREAM_FAILED"

\* The segment comes from the version that was opened, whatever the object is now.
Written(count) ==
  request.body \o [i \in 1..count |-> Byte(request.opened, request.offset + i - 1)]

copySegment(count, closed) ==
  /\ request.pc = "copy"
  /\ \/ /\ ~copied(count, closed)
        /\ request' = [End(streamFailureOutcome) EXCEPT !.body = Written(count)]
     \/ /\ copied(count, closed)
        /\ request.remaining > SegmentLength
        /\ request' = [request EXCEPT !.pc = "open", !.body = Written(count),
                                      !.offset = @ + SegmentLength,
                                      !.remaining = @ - SegmentLength]
     \/ /\ copied(count, closed)
        /\ request.remaining = SegmentLength
        /\ request' = [End("STREAM_COMPLETED") EXCEPT !.body = Written(count)]
  /\ UNCHANGED <<object, left, server, client>>

(***************************************************************************)
(* The response ends.  The client has received the headers and some prefix *)
(* of what was written: a 200 starts its file anew, with the ETag and the  *)
(* length of its headers, a 206 to a resumption continues it, anything     *)
(* else leaves it alone.                                                   *)
(***************************************************************************)
Receive(count) ==
  LET received == SubSeq(request.body, 1, count) IN
  /\ request.pc = "done"
  /\ client' = CASE request.status = 200 ->
                      [etag |-> request.announced, total |-> ContentLength(request),
                       bytes |-> received]
                 [] request.status = 206 /\ request.resume ->
                      [client EXCEPT !.bytes = @ \o received]
                 [] OTHER -> client
  /\ request' = Idle
  /\ left' = FALSE
  /\ UNCHANGED <<object, server>>

\* The connection broke before the client saw any of the response.
Lose ==
  /\ request.pc = "done"
  /\ request' = Idle
  /\ left' = FALSE
  /\ UNCHANGED <<object, server, client>>

------------------------------------------------------------------------------
(***************************************************************************)
(* The process.  After a signal it waits for its requests, for 30 seconds  *)
(* at most; it may also die.  What a request had written by then, count    *)
(* bytes of the open segment included, is all there will be.               *)
(***************************************************************************)
Signal ==
  /\ server = "serving"
  /\ server' = "stopping"
  /\ UNCHANGED <<object, request, left, client>>

Exit(count) ==
  /\ server # "down"
  /\ server' = "down"
  /\ request' = CASE request.pc \in {"stat", "open"} -> [request EXCEPT !.pc = "done"]
                  [] request.pc = "copy" -> [request EXCEPT !.pc = "done", !.body = Written(count)]
                  [] OTHER -> request
  /\ UNCHANGED <<object, left, client>>

Start ==
  /\ server = "down"
  /\ server' = "serving"
  /\ UNCHANGED <<object, request, left, client>>

Next ==
  \/ \E size \in Sizes : Replace(size)
  \/ Delete
  \/ \E range \in Ranges, validator \in {NoValidator, Unusable} : Ask(range, validator)
  \/ Resume
  \/ Leave
  \/ Stat
  \/ OpenRange
  \/ \E count \in 0..SegmentLength, closed \in BOOLEAN : copySegment(count, closed)
  \/ \E count \in 0..Len(request.body) : Receive(count)
  \/ Lose
  \/ Signal
  \/ \E count \in 0..SegmentLength : Exit(count)
  \/ Start

Spec == Init /\ [][Next]_vars

------------------------------------------------------------------------------
(***************************************************************************)
(* Properties.                                                             *)
(***************************************************************************)
(***************************************************************************)
(* Select answers what was asked.  A partial answer is exactly the bytes   *)
(* that the range names, of a version the validator admits; the whole      *)
(* object answers a request without a range or with a validator of another *)
(* version; a refusal means that no byte was named, or that the header is  *)
(* not one range in numbers of 63 bits.                                    *)
(***************************************************************************)
AnswerIsMeant ==
  LET selection == request.selection
      range == request.range
      current == request.validator \in {NoValidator, request.etag}
  IN request.etag # 0 =>
       CASE selection.partial ->
              /\ current
              /\ selection.length > 0
              /\ Positions(selection) = Meaning(range, request.size)
         [] selection.allowed /\ ~selection.partial ->
              /\ range.kind = "none" \/ ~current
              /\ Positions(selection) = 0..(request.size - 1)
         [] ~selection.allowed ->
              \/ range.kind # "bytes"
              \/ Meaning(range, request.size) = {}
              \/ range.first > MaxDecimal \/ range.last > MaxDecimal

(***************************************************************************)
(* Every byte of a response is the next selected byte of the version whose *)
(* ETag and length the headers announce, however the object is replaced or *)
(* deleted between two segments.                                           *)
(***************************************************************************)
StreamIsOneVersion ==
  /\ Len(request.body) <= ContentLength(request)
  /\ \A i \in 1..Len(request.body) :
       request.body[i] = Byte(request.announced, request.selection.offset + i - 1)

(***************************************************************************)
(* The event stream_completed is logged only when the headers named the    *)
(* version and all bytes they announced were written.                      *)
(***************************************************************************)
CompletedIsWhole ==
  request.outcome = "STREAM_COMPLETED" =>
    /\ request.status \in {200, 206}
    /\ request.announced # 0
    /\ Len(request.body) = ContentLength(request)

(***************************************************************************)
(* A client that interrupts and resumes with If-Range, any number of       *)
(* times, holds a prefix of one version: a replacement between two         *)
(* requests restarts its file and never splices two versions.  And the     *)
(* length it waits for is the length of that version, so that a file with  *)
(* the current ETag that looks complete is the object.                     *)
(***************************************************************************)
ResumedFileIsOneVersion ==
  /\ \A i \in 1..Len(client.bytes) : client.bytes[i] = Byte(client.etag, i - 1)
  /\ client.etag = object.etag => /\ client.total = object.size
                                  /\ Len(client.bytes) <= client.total

(***************************************************************************)
(* "A response contains bytes from one observed object version or fails"   *)
(* (docs/threat-model.md): a success that brings all the bytes it          *)
(* announces is about a version that the metadata read observed.           *)
(***************************************************************************)
ResponseIsVersionOrFails ==
  /\ request.pc = "done" /\ request.status \in {200, 206}
  /\ Len(request.body) = ContentLength(request)
  => request.announced # 0 /\ request.announced = request.etag
==============================================================================
