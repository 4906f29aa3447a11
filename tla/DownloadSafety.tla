--------------------------- MODULE DownloadSafety ---------------------------
(***************************************************************************)
(* What Download guarantees for every object size, every Range header,     *)
(* every segment size and every number of versions of the object.          *)
(*                                                                         *)
(* First Select is compared with the meaning of a byte range; then         *)
(* StreamInv is shown to be inductive, one lemma per group of actions.     *)
(***************************************************************************)
EXTENDS DownloadInvariant, DownloadLiveness, SequenceTheorems, TLAPS

(***************************************************************************)
(* Select: the length never exceeds the object, and a partial answer has   *)
(* at least one byte.                                                      *)
(***************************************************************************)
LEMMA SelectTypes ==
  ASSUME NEW range \in RangeHeaders, NEW validator \in Nat \cup {Unusable},
         NEW size \in Nat, NEW etag \in Nat \ {0},
         NEW selection, selection = Select(range, validator, size, etag)
  PROVE  /\ selection \in Selections
         /\ selection.offset + selection.length <= size
         /\ selection.partial => selection.allowed /\ selection.length > 0
         /\ selection.allowed /\ ~selection.partial => selection = Full(size)
         /\ ~selection.allowed => selection = Invalid
<1>1. CASE selection = Full(size)
  BY <1>1 DEF Full, Selections
<1>2. CASE selection = Invalid
  BY <1>2 DEF Invalid, Selections
<1>3. CASE /\ parseRangeAllowed(range, size)
           /\ selection = [allowed |-> TRUE,
                           offset  |-> start(range, size),
                           length  |-> end(range, size) - start(range, size) + 1,
                           partial |-> TRUE]
  <2>1. /\ range.first \in Nat \cup {Absent} /\ range.last \in Nat \cup {Absent}
        /\ size > 0
    BY <1>3 DEF parseRangeAllowed, RangeHeaders
  <2>2. /\ start(range, size) \in Nat /\ end(range, size) \in Nat
        /\ start(range, size) <= end(range, size)
        /\ end(range, size) < size
    BY <1>3, <2>1 DEF parseRangeAllowed, start, end, Absent, Smaller, Larger
  <2> QED
    BY <1>3, <2>2 DEF Selections
<1> QED
  BY <1>1, <1>2, <1>3 DEF Select

(***************************************************************************)
(* A range that parseRange allows selects exactly the positions it names.  *)
(***************************************************************************)
LEMMA AllowedIsMeaning ==
  ASSUME NEW range \in RangeHeaders, NEW size \in Nat, parseRangeAllowed(range, size)
  PROVE  start(range, size)..end(range, size) = Meaning(range, size)
<1>1. /\ range.first \in Nat \cup {Absent} /\ range.last \in Nat \cup {Absent}
      /\ size > 0
  BY DEF parseRangeAllowed, RangeHeaders
<1>2. CASE range.first = Absent
  <2>1. /\ range.last \in Nat /\ range.last > 0
        /\ end(range, size) = size - 1
        /\ start(range, size) = IF size - range.last < 0 THEN 0 ELSE size - range.last
    BY <1>1, <1>2 DEF parseRangeAllowed, start, end, Absent, Larger
  <2>2. Meaning(range, size) = {b \in 0..(size - 1) : size - b <= range.last}
    BY <1>2, <2>1 DEF Meaning, Absent
  <2> QED
    BY <2>1, <2>2
<1>3. CASE range.first # Absent
  <2>1. /\ range.first \in Nat /\ start(range, size) = range.first
        /\ end(range, size) = IF range.last = Absent \/ size - 1 <= range.last
                              THEN size - 1 ELSE range.last
    BY <1>1, <1>3 DEF start, end, Absent, Smaller
  <2>2. Meaning(range, size) =
          {b \in 0..(size - 1) : b >= range.first /\ (range.last = Absent \/ b <= range.last)}
    BY <1>3 DEF Meaning
  <2> QED
    BY <1>1, <2>1, <2>2 DEF Absent
<1> QED
  BY <1>2, <1>3

(***************************************************************************)
(* A byte range in numbers of at most MaxDecimal that parseRange refuses   *)
(* names no byte of the object.                                            *)
(***************************************************************************)
LEMMA RefusedIsEmpty ==
  ASSUME NEW range \in RangeHeaders, NEW size \in Nat, range.kind = "bytes",
         range.first <= MaxDecimal, range.last <= MaxDecimal,
         ~parseRangeAllowed(range, size)
  PROVE  Meaning(range, size) = {}
<1>1. range.first \in Nat \cup {Absent} /\ range.last \in Nat \cup {Absent}
  BY DEF RangeHeaders
<1>2. \/ size = 0
      \/ range.first = Absent /\ ~(range.last > 0)
      \/ range.first # Absent /\ range.first >= size
      \/ range.first # Absent /\ range.last # Absent /\ range.last < range.first
  BY <1>1 DEF parseRangeAllowed, parseDecimalAllowed, Absent
<1> QED
  BY <1>1, <1>2 DEF Meaning, Absent
(***************************************************************************)
(* The selection of a request that passed the metadata read answers what   *)
(* was asked.                                                              *)
(***************************************************************************)
LEMMA SelectedIsMeant ==
  ASSUME TypeInv, Selected(request)
  PROVE  AnswerIsMeant
<1> DEFINE sel == request.selection
           range == request.range
           size == request.size
<1> SUFFICES ASSUME request.etag # 0
             PROVE  AnswerIsMeant
  BY DEF AnswerIsMeant
<1>1. /\ range \in RangeHeaders /\ request.validator \in Nat \cup {Unusable}
      /\ size \in Nat /\ request.etag \in Nat \ {0}
      /\ sel = Select(range, request.validator, size, request.etag)
  BY DEF TypeInv, RequestState, Selected
<1>2. /\ sel \in Selections
      /\ sel.partial => sel.allowed /\ sel.length > 0
      /\ sel.allowed /\ ~sel.partial => sel = Full(size)
      /\ ~sel.allowed => sel = Invalid
  <2> HIDE DEF sel, range, size
  <2> QED
    BY <1>1, SelectTypes
<1>3. (request.validator \in {NoValidator, request.etag})
        <=> ifRangePermits(request.validator, request.etag)
  BY <1>1 DEF ifRangePermits, NoValidator, Unusable
<1>4. CASE sel.partial
  <2>1. /\ parseRangeAllowed(range, size)
        /\ range.kind = "bytes"
        /\ ifRangePermits(request.validator, request.etag)
        /\ sel.offset = start(range, size)
        /\ sel.length = end(range, size) - start(range, size) + 1
    BY <1>1, <1>4 DEF Select, Full, Invalid, parseRangeAllowed
  <2>2. range.first \in Nat \cup {Absent} /\ range.last \in Nat \cup {Absent}
    BY <1>1, <2>1 DEF RangeHeaders
  <2>3. start(range, size) \in Int /\ end(range, size) \in Int
    BY <1>1, <2>2 DEF start, end, Smaller, Larger, Absent
  <2>4. Positions(sel) = start(range, size)..end(range, size)
    BY <2>1, <2>3 DEF Positions
  <2> QED
    BY <1>2, <1>3, <1>4, <2>1, <2>4, <1>1, AllowedIsMeaning DEF AnswerIsMeant
<1>5. CASE sel.allowed /\ ~sel.partial
  <2>1. \/ range.kind = "none"
        \/ ~ifRangePermits(request.validator, request.etag)
    BY <1>1, <1>5 DEF Select, Invalid
  <2>2. Positions(sel) = 0..(size - 1)
    BY <1>1, <1>2, <1>5 DEF Positions, Full
  <2> QED
    BY <1>3, <1>5, <2>1, <2>2 DEF AnswerIsMeant
<1>6. CASE ~sel.allowed
  <2>1. ~parseRangeAllowed(range, size)
    BY <1>1, <1>6 DEF Select, Full
  <2>2. CASE range.kind = "bytes" /\ range.first <= MaxDecimal /\ range.last <= MaxDecimal
    BY <1>1, <1>2, <1>6, <2>1, <2>2, RefusedIsEmpty DEF AnswerIsMeant
  <2>3. CASE range.kind # "bytes"
    BY <1>2, <1>6, <2>3 DEF AnswerIsMeant
  <2>4. CASE range.kind = "bytes" /\ ~(range.first <= MaxDecimal /\ range.last <= MaxDecimal)
    <3>1. range.first \in Int /\ range.last \in Int
      BY <1>1, <2>4 DEF RangeHeaders, Absent
    <3>2. range.first > MaxDecimal \/ range.last > MaxDecimal
      BY <2>4, <3>1, MaxDecimalAssumption
    <3> QED
      BY <1>2, <1>6, <3>2 DEF AnswerIsMeant
  <2> QED
    BY <2>2, <2>3, <2>4
<1> QED
  BY <1>2, <1>4, <1>5, <1>6 DEF Selections

------------------------------------------------------------------------------
(***************************************************************************)
(* The steps of the world around the handler leave the request and the     *)
(* client's file alone.                                                    *)
(***************************************************************************)
LEMMA Untouched ==
  ASSUME StreamInv, UNCHANGED <<request, client>>, TypeInv'
  PROVE  StreamInv'
BY DEF StreamInv, Selected, NothingYet, InStream, StatusIsMeant, AsksForRest,
       BodyIsSelected, CompletedIsWhole, ContentLength, FileIsPrefix

LEMMA IdleTypes == Idle \in RequestState
BY DEF Idle, Steps, Statuses, Outcomes, RequestState, RangeHeaders, Selections, Invalid, NoValidator

LEMMA StreamInit == Init => StreamInv
<1> SUFFICES ASSUME Init
             PROVE  StreamInv
  OBVIOUS
<1>1. TypeInv
  <2>1. PICK size \in Sizes : object = [there |-> TRUE, etag |-> 1, size |-> size]
    BY DEF Init
  <2>2. object \in [there : BOOLEAN, etag : Nat \ {0}, size : Nat]
    BY <2>1, DownloadAssumption
  <2>3. client \in Files
    BY DEF Init, Files
  <2> QED
    BY <2>2, <2>3, IdleTypes DEF Init, TypeInv
<1>2. Len(<< >>) = 0
  OBVIOUS
<1>3. /\ Selected(request) /\ NothingYet(request) /\ InStream(request)
      /\ StatusIsMeant(request) /\ AsksForRest(request, client)
  BY DEF Init, Idle, Selected, NothingYet, InStream, StatusIsMeant, AsksForRest, Invalid
<1>4. BodyIsSelected /\ CompletedIsWhole /\ FileIsPrefix
  BY DEF Init, Idle, Invalid, BodyIsSelected, CompletedIsWhole, FileIsPrefix
<1> QED
  BY <1>1, <1>3, <1>4 DEF StreamInv

Fresh(range, validator, resume) ==
  [pc |-> "stat", range |-> range, validator |-> validator, resume |-> resume,
   etag |-> 0, size |-> 0, selection |-> Invalid, offset |-> 0, remaining |-> 0,
   opened |-> 0, status |-> 0, announced |-> 0, body |-> << >>, outcome |-> "none"]

(***************************************************************************)
(* A new request has written nothing; a resumption names the bytes that    *)
(* follow the client's.                                                    *)
(***************************************************************************)
LEMMA NewRequestKeeps ==
  ASSUME StreamInv,
         \/ \E range \in Ranges, validator \in {NoValidator, Unusable} : Ask(range, validator)
         \/ Resume
  PROVE  StreamInv'
<1>0. PICK range \in RangeHeaders, validator \in Nat \cup {Unusable}, resume \in BOOLEAN :
        /\ request' = Fresh(range, validator, resume)
        /\ resume => /\ client.bytes # << >> /\ validator = client.etag
                     /\ range = RangeHeader(Len(client.bytes), Absent)
  <2>1. CASE Resume
    <3>1. RangeHeader(Len(client.bytes), Absent) \in RangeHeaders /\ client.etag \in Nat
      BY DEF StreamInv, TypeInv, Files, RangeHeaders, RangeHeader
    <3>2. request' = Fresh(RangeHeader(Len(client.bytes), Absent), client.etag, TRUE)
      BY <2>1 DEF Resume, Idle, Fresh
    <3> QED
      BY <2>1, <3>1, <3>2 DEF Resume
  <2>2. CASE \E range \in Ranges, validator \in {NoValidator, Unusable} : Ask(range, validator)
    <3>1. PICK range \in Ranges, validator \in {NoValidator, Unusable} : Ask(range, validator)
      BY <2>2
    <3>2. range \in RangeHeaders /\ validator \in Nat \cup {Unusable}
      BY DownloadAssumption DEF NoValidator
    <3>3. request' = Fresh(range, validator, FALSE)
      BY <3>1 DEF Ask, Idle, Fresh
    <3> QED
      BY <3>2, <3>3
  <2> QED
    BY <2>1, <2>2
<1>1. client' = client /\ object' = object /\ server' = server /\ left' = FALSE
  BY DEF Ask, Resume
<1>2. /\ request'.etag = 0 /\ request'.selection = Invalid /\ request'.pc = "stat"
      /\ request'.body = << >> /\ request'.status = 0 /\ request'.outcome = "none"
      /\ request'.range = range /\ request'.validator = validator
      /\ request'.resume = resume /\ request'.announced = 0
  BY <1>0 DEF Fresh
<1>3. TypeInv'
  <2>1. request' \in RequestState
    BY <1>0 DEF Fresh, RequestState, Steps, Statuses, Outcomes, Selections, Invalid
  <2> QED
    BY <1>1, <2>1 DEF StreamInv, TypeInv
<1>4. AsksForRest(request, client)'
  BY <1>0, <1>1, <1>2 DEF StreamInv, AsksForRest
<1>5. /\ Selected(request)' /\ NothingYet(request)' /\ InStream(request)'
      /\ StatusIsMeant(request)'
  BY <1>2 DEF Selected, NothingYet, InStream, StatusIsMeant
<1>6. BodyIsSelected' /\ CompletedIsWhole' /\ FileIsPrefix'
  BY <1>1, <1>2 DEF StreamInv, Invalid, BodyIsSelected, CompletedIsWhole,
                    FileIsPrefix
<1> QED
  BY <1>3, <1>4, <1>5, <1>6 DEF StreamInv

------------------------------------------------------------------------------
(***************************************************************************)
(* What a step of the handler leaves alone after the metadata read.        *)
(***************************************************************************)
SameSelection(r, s) ==
  /\ s.range = r.range /\ s.validator = r.validator /\ s.resume = r.resume
  /\ s.etag = r.etag /\ s.size = r.size /\ s.selection = r.selection
  /\ s.announced = r.announced

\* The record updates with which a request ends.
LEMMA RespondFacts ==
  ASSUME request \in RequestState, NEW status \in Statuses,
         request' = Respond(status)
  PROVE  /\ request' \in RequestState /\ SameSelection(request, request')
         /\ request'.pc = "done" /\ request'.status = status
         /\ request'.outcome = request.outcome /\ request'.body = request.body
<1>1. "done" \in Steps
  BY DEF Steps
<1> QED
  BY <1>1, Zenon DEF Respond, RequestState, SameSelection

LEMMA RespondWithFacts ==
  ASSUME request \in RequestState, NEW status \in Statuses, NEW outcome \in Outcomes,
         request' = [Respond(status) EXCEPT !.outcome = outcome]
  PROVE  /\ request' \in RequestState /\ SameSelection(request, request')
         /\ request'.pc = "done" /\ request'.status = status
         /\ request'.outcome = outcome /\ request'.body = request.body
<1>1. "done" \in Steps
  BY DEF Steps
<1> QED
  BY <1>1, Zenon DEF Respond, RequestState, SameSelection

LEMMA EndFacts ==
  ASSUME request \in RequestState, NEW outcome \in Outcomes,
         request' = End(outcome)
  PROVE  /\ request' \in RequestState /\ SameSelection(request, request')
         /\ request'.pc = "done" /\ request'.status = request.status
         /\ request'.outcome = outcome /\ request'.body = request.body
<1>1. "done" \in Steps
  BY DEF Steps
<1> QED
  BY <1>1, Zenon DEF End, RequestState, SameSelection

LEMMA EndWithFacts ==
  ASSUME request \in RequestState, NEW outcome \in Outcomes, NEW body \in Seq(Bytes),
         request' = [End(outcome) EXCEPT !.body = body]
  PROVE  /\ request' \in RequestState /\ SameSelection(request, request')
         /\ request'.pc = "done" /\ request'.status = request.status
         /\ request'.outcome = outcome /\ request'.body = body
<1>1. "done" \in Steps
  BY DEF Steps
<1> QED
  BY <1>1, Zenon DEF End, RequestState, SameSelection

LEMMA StopFacts ==
  ASSUME request \in RequestState,
         request' = [request EXCEPT !.pc = "done"]
  PROVE  /\ request' \in RequestState /\ SameSelection(request, request')
         /\ request'.pc = "done" /\ request'.status = request.status
         /\ request'.outcome = request.outcome /\ request'.body = request.body
<1>1. "done" \in Steps
  BY DEF Steps
<1> QED
  BY <1>1, Zenon DEF RequestState, SameSelection

LEMMA StopWithFacts ==
  ASSUME request \in RequestState, NEW body \in Seq(Bytes),
         request' = [request EXCEPT !.pc = "done", !.body = body]
  PROVE  /\ request' \in RequestState /\ SameSelection(request, request')
         /\ request'.pc = "done" /\ request'.status = request.status
         /\ request'.outcome = request.outcome /\ request'.body = body
<1>1. "done" \in Steps
  BY DEF Steps
<1> QED
  BY <1>1, Zenon DEF RequestState, SameSelection

(***************************************************************************)
(* However a request ends, it ends with the selection and the headers it   *)
(* had, and after headers with the status line they were written under.    *)
(***************************************************************************)
LEMMA EndKeeps ==
  ASSUME StreamInv, UNCHANGED <<object, client>>,
         left' \in BOOLEAN, server' \in {"serving", "stopping", "down"},
         request' \in RequestState, request'.pc = "done", SameSelection(request, request'),
         BodyIsSelected', CompletedIsWhole',
         request.announced # 0 => request'.status = request.status,
         request.announced = 0 => request'.body = << >> /\ request'.status # 206,
         request.etag = 0 => request'.body = << >> /\ request'.outcome # "STREAM_COMPLETED"
  PROVE  StreamInv'
<1>1. Selected(request)'
  BY DEF StreamInv, Selected, SameSelection
<1>2. NothingYet(request)'
  BY DEF StreamInv, NothingYet, SameSelection
<1>3. InStream(request)'
  BY DEF InStream
<1>4. StatusIsMeant(request)'
  BY DEF StreamInv, StatusIsMeant, SameSelection
<1>5. AsksForRest(request, client)' /\ FileIsPrefix'
  BY DEF StreamInv, AsksForRest, FileIsPrefix, SameSelection
<1>6. TypeInv'
  BY DEF StreamInv, TypeInv
<1> QED
  BY <1>1, <1>2, <1>3, <1>4, <1>5, <1>6 DEF StreamInv

\* A request that ends without another byte and without a new claim to be complete.
LEMMA BreakKeeps ==
  ASSUME StreamInv, UNCHANGED <<object, client>>,
         left' \in BOOLEAN, server' \in {"serving", "stopping", "down"},
         request' \in RequestState, request'.pc = "done", SameSelection(request, request'),
         request'.body = request.body,
         request'.outcome # "STREAM_COMPLETED",
         \/ request'.status = request.status
         \/ request.status = 0 /\ request'.status # 206
  PROVE  StreamInv'
<1>1. /\ request.announced # 0 => request'.status = request.status
      /\ request.announced = 0 => request'.body = << >> /\ request'.status # 206
  BY DEF StreamInv, StatusIsMeant
<1>2. BodyIsSelected' /\ CompletedIsWhole'
  BY DEF StreamInv, BodyIsSelected, CompletedIsWhole, ContentLength, SameSelection
<1>3. request.etag = 0 => request'.body = << >>
  BY DEF StreamInv, NothingYet
<1> QED
  BY <1>1, <1>2, <1>3, EndKeeps

\* The record updates with which a request goes on after the metadata read.
Accepted(r, etag, size, selection) ==
  [r EXCEPT !.etag = etag, !.size = size, !.selection = selection]

AcceptedAs(r, s, etag, size, selection) ==
  /\ s \in RequestState
  /\ s.range = r.range /\ s.validator = r.validator /\ s.resume = r.resume
  /\ s.etag = etag /\ s.size = size /\ s.selection = selection
  /\ s.body = r.body

Refused(r, pc, status) == [r EXCEPT !.pc = pc, !.status = status]

Emptied(r, pc, status, etag, outcome) ==
  [r EXCEPT !.pc = pc, !.status = status, !.announced = etag, !.outcome = outcome]

Started(r, pc, offset, remaining) ==
  [r EXCEPT !.pc = pc, !.offset = offset, !.remaining = remaining]

LEMMA AcceptFacts ==
  ASSUME NEW r \in RequestState, NEW etag \in Nat, NEW size \in Nat,
         NEW selection \in Selections, NEW a, a = Accepted(r, etag, size, selection),
         NEW pc \in Steps, NEW s
  PROVE  /\ \A status \in Statuses : s = Refused(a, pc, status) =>
              /\ AcceptedAs(r, s, etag, size, selection)
              /\ s.pc = pc /\ s.status = status /\ s.outcome = r.outcome
              /\ s.announced = r.announced
         /\ \A status \in Statuses, outcome \in Outcomes :
              s = Emptied(a, pc, status, etag, outcome) =>
              /\ AcceptedAs(r, s, etag, size, selection)
              /\ s.pc = pc /\ s.status = status /\ s.outcome = outcome
              /\ s.announced = etag
<1>1. ASSUME NEW status \in Statuses, s = Refused(a, pc, status)
      PROVE  /\ AcceptedAs(r, s, etag, size, selection)
             /\ s.pc = pc /\ s.status = status /\ s.outcome = r.outcome
             /\ s.announced = r.announced
  BY <1>1, Zenon DEF RequestState, Accepted, AcceptedAs, Refused
<1>2. ASSUME NEW status \in Statuses, NEW outcome \in Outcomes,
             s = Emptied(a, pc, status, etag, outcome)
      PROVE  /\ AcceptedAs(r, s, etag, size, selection)
             /\ s.pc = pc /\ s.status = status /\ s.outcome = outcome
             /\ s.announced = etag
  BY <1>2, Zenon DEF RequestState, Accepted, AcceptedAs, Emptied
<1> QED
  BY <1>1, <1>2

LEMMA StartFacts ==
  ASSUME NEW r \in RequestState, NEW etag \in Nat, NEW size \in Nat,
         NEW selection \in Selections, NEW a, a = Accepted(r, etag, size, selection),
         NEW pc \in Steps, NEW s, s = Started(a, pc, selection.offset, selection.length)
  PROVE  /\ AcceptedAs(r, s, etag, size, selection)
         /\ s.pc = pc /\ s.status = r.status /\ s.outcome = r.outcome
         /\ s.announced = r.announced
         /\ s.offset = selection.offset /\ s.remaining = selection.length
<1>1. selection.offset \in Nat /\ selection.length \in Nat
  BY DEF Selections
<1> QED
  BY <1>1, Zenon DEF RequestState, Accepted, AcceptedAs, Started

(***************************************************************************)
(* The invariant after the metadata read, from the fields of the request.  *)
(***************************************************************************)
LEMMA AcceptedKeeps ==
  ASSUME StreamInv, request.pc = "stat", UNCHANGED <<object, client>>,
         left' \in BOOLEAN, server' \in {"serving", "stopping", "down"},
         NEW selection \in Selections,
         selection = Select(request.range, request.validator, object.size, object.etag),
         selection.partial => selection.allowed /\ selection.length > 0,
         AcceptedAs(request, request', object.etag, object.size, selection),
         \/ /\ request'.pc = "done" /\ request'.status = 416 /\ request'.outcome = "none"
            /\ request'.announced = 0
         \/ /\ selection.allowed /\ selection.length = 0
            /\ request'.pc = "done" /\ request'.status = 200
            /\ request'.announced = object.etag /\ request'.outcome = "STREAM_COMPLETED"
         \/ /\ selection.allowed /\ selection.length > 0
            /\ request'.pc = "open" /\ request'.status = 0 /\ request'.outcome = "none"
            /\ request'.announced = 0
            /\ request'.offset = selection.offset /\ request'.remaining = selection.length
  PROVE  StreamInv'
<1>0. /\ object.etag \in Nat \ {0}
      /\ request.body = << >> /\ Len(<< >>) = 0
      /\ selection.offset \in Nat /\ selection.length \in Nat
      /\ request'.etag = object.etag /\ request'.selection = selection
      /\ request'.body = << >>
  BY DEF StreamInv, TypeInv, NothingYet, Selections, AcceptedAs
<1>1. TypeInv'
  BY DEF StreamInv, TypeInv, AcceptedAs
<1>2. Selected(request)'
  BY <1>0 DEF Selected, AcceptedAs
<1>3. NothingYet(request)'
  BY <1>0 DEF NothingYet
<1>4. InStream(request)'
  BY <1>0 DEF InStream
<1>5. StatusIsMeant(request)'
  BY <1>0 DEF StatusIsMeant, Selections
<1>6. AsksForRest(request, client)' /\ FileIsPrefix'
  BY DEF StreamInv, AsksForRest, FileIsPrefix, AcceptedAs
<1>7. BodyIsSelected' /\ CompletedIsWhole'
  BY <1>0 DEF BodyIsSelected, CompletedIsWhole, ContentLength
<1> QED
  BY <1>1, <1>2, <1>3, <1>4, <1>5, <1>6, <1>7 DEF StreamInv

(***************************************************************************)
(* The metadata read fixes the version, the size and the selection.        *)
(***************************************************************************)
LEMMA StatKeeps ==
  ASSUME StreamInv, Stat
  PROVE  StreamInv'
<1> DEFINE selection == Select(request.range, request.validator, object.size, object.etag)
           accepted == [request EXCEPT !.etag = object.etag, !.size = object.size,
                                       !.selection = selection]
<1>0. /\ request \in RequestState /\ request.pc = "stat"
      /\ object.etag \in Nat \ {0} /\ object.size \in Nat
      /\ request.etag = 0 /\ request.body = << >>
      /\ request.status = 0 /\ request.announced = 0 /\ request.outcome = "none"
      /\ UNCHANGED <<object, client>>
      /\ left' \in BOOLEAN /\ server' \in {"serving", "stopping", "down"}
  BY DEF StreamInv, TypeInv, NothingYet, Stat
<1>1. /\ selection \in Selections
      /\ selection.partial => selection.allowed /\ selection.length > 0
      /\ ~selection.allowed => selection = Invalid
  <2>1. PICK sel : sel = selection
    OBVIOUS
  <2>2. /\ request.range \in RangeHeaders /\ request.validator \in Nat \cup {Unusable}
        /\ object.size \in Nat /\ object.etag \in Nat \ {0}
    BY <1>0 DEF RequestState
  <2> QED
    BY <2>1, <2>2, SelectTypes
<1>2. CASE (\E err \in translateError : request' = writeStorageError(err))
             \/ request' = Respond(413)
  <2>1. PICK status \in {200, 404, 413, 502} : request' = Respond(status)
    BY <1>2, ZenonT(30) DEF writeStorageError
  <2>2. status \in Statuses /\ status # 206
    BY DEF Statuses
  <2>3. /\ request' \in RequestState /\ SameSelection(request, request')
        /\ request'.pc = "done" /\ request'.status = status
        /\ request'.outcome = request.outcome /\ request'.body = request.body
    BY <1>0, <2>1, <2>2, RespondFacts
  <2> QED
    BY <1>0, <2>2, <2>3, BreakKeeps
<1>3. /\ accepted = Accepted(request, object.etag, object.size, selection)
      /\ {"done", "open"} \subseteq Steps /\ {200, 416} \subseteq Statuses
      /\ "STREAM_COMPLETED" \in Outcomes
      /\ selection.offset \in Nat /\ selection.length \in Nat
  BY <1>1 DEF Accepted, Steps, Statuses, Outcomes, Selections
<1> HIDE DEF accepted, selection
<1>4. CASE request' = Refused(accepted, "done", 416)
  <2>1. /\ AcceptedAs(request, request', object.etag, object.size, selection)
        /\ request'.pc = "done" /\ request'.status = 416 /\ request'.outcome = "none"
        /\ request'.announced = 0
    BY <1>0, <1>1, <1>3, <1>4, AcceptFacts
  <2> QED
    BY <1>0, <1>1, <2>1, AcceptedKeeps DEF selection
<1>5. CASE /\ selection.allowed /\ selection.length = 0
           /\ request' = Emptied(accepted, "done", 200, object.etag, "STREAM_COMPLETED")
  <2>1. /\ AcceptedAs(request, request', object.etag, object.size, selection)
        /\ request'.pc = "done" /\ request'.status = 200
        /\ request'.announced = object.etag /\ request'.outcome = "STREAM_COMPLETED"
    BY <1>0, <1>1, <1>3, <1>5, AcceptFacts
  <2> QED
    BY <1>0, <1>1, <1>5, <2>1, AcceptedKeeps DEF selection
<1>6. CASE /\ selection.allowed /\ selection.length > 0
           /\ request' = Started(accepted, "open", selection.offset, selection.length)
  <2>1. /\ AcceptedAs(request, request', object.etag, object.size, selection)
        /\ request'.pc = "open" /\ request'.status = 0 /\ request'.outcome = "none"
        /\ request'.announced = 0
        /\ request'.offset = selection.offset /\ request'.remaining = selection.length
    <3>1. /\ accepted = Accepted(request, object.etag, object.size, selection)
          /\ request' = Started(accepted, "open", selection.offset, selection.length)
          /\ object.etag \in Nat /\ object.size \in Nat /\ "open" \in Steps
      BY <1>0, <1>3, <1>6
    <3> QED
      BY <1>0, <1>1, <3>1, StartFacts
  <2> QED
    BY <1>0, <1>1, <1>6, <2>1, AcceptedKeeps DEF selection
<1> QED
  BY <1>2, <1>4, <1>5, <1>6 DEF Stat, Refused, Emptied, Started, accepted, selection

\* The ways a metadata read ends: an answer without a selection, or one of three
\* answers to the selection.
LEMMA StatCases ==
  ASSUME Stat,
         NEW s, s = Select(request.range, request.validator, object.size, object.etag),
         NEW a, a = Accepted(request, object.etag, object.size, s)
  PROVE  \/ \E status : request' = Respond(status)
         \/ request' = Refused(a, "done", 416)
         \/ request' = Emptied(a, "done", 200, object.etag, "STREAM_COMPLETED")
         \/ request' = Started(a, "open", s.offset, s.length)
<1>1. \A err : \E status : writeStorageError(err) = Respond(status)
  BY DEF writeStorageError
<1>2. \/ \E err : request' = writeStorageError(err)
      \/ request' = Respond(413)
      \/ request' = Refused(a, "done", 416)
      \/ request' = Emptied(a, "done", 200, object.etag, "STREAM_COMPLETED")
      \/ request' = Started(a, "open", s.offset, s.length)
  BY Zenon DEF Stat, Accepted, Refused, Emptied, Started
<1>3. CASE \E err : request' = writeStorageError(err)
  BY <1>1, <1>3, Zenon
<1> QED
  BY <1>2, <1>3, Zenon

------------------------------------------------------------------------------
(***************************************************************************)
(* A segment is opened, or the request ends: OpenRange.                    *)
(***************************************************************************)
Opened(r, etag, status) ==
  [r EXCEPT !.pc = "copy", !.opened = etag, !.announced = r.etag, !.status = status]

OpenedAs(r, s) ==
  /\ s.range = r.range /\ s.validator = r.validator /\ s.resume = r.resume
  /\ s.etag = r.etag /\ s.size = r.size /\ s.selection = r.selection
  /\ s.announced = r.etag

LEMMA OpenedFacts ==
  ASSUME NEW r \in RequestState, NEW etag \in Nat, NEW status \in Statuses,
         NEW s, s = Opened(r, etag, status)
  PROVE  /\ s \in RequestState /\ OpenedAs(r, s)
         /\ s.pc = "copy" /\ s.opened = etag /\ s.status = status
         /\ s.outcome = r.outcome /\ s.body = r.body
         /\ s.offset = r.offset /\ s.remaining = r.remaining
<1>1. "copy" \in Steps
  BY DEF Steps
<1> QED
  BY <1>1, Zenon DEF RequestState, Opened, OpenedAs

LEMMA OpenKeeps ==
  ASSUME StreamInv, OpenRange
  PROVE  StreamInv'
<1>0. /\ request \in RequestState /\ request.pc = "open" /\ request.outcome = "none"
      /\ request.selection.partial \in BOOLEAN /\ request.selection.allowed
      /\ object.etag \in Nat
      /\ UNCHANGED <<object, client>>
      /\ left' \in BOOLEAN /\ server' \in {"serving", "stopping", "down"}
  BY DEF StreamInv, TypeInv, RequestState, Selections, InStream, OpenRange
<1>1. ASSUME NEW outcome \in {"STREAM_ABANDONED", "STREAM_FAILED"}, request' = End(outcome)
      PROVE  StreamInv'
  <2>1. outcome \in Outcomes
    BY DEF Outcomes
  <2>2. /\ request' \in RequestState /\ SameSelection(request, request')
        /\ request'.pc = "done" /\ request'.status = request.status
        /\ request'.outcome = outcome /\ request'.body = request.body
    BY <1>0, <1>1, <2>1, EndFacts
  <2> QED
    BY <1>0, <2>2, BreakKeeps
<1>2. ASSUME NEW err, request' = OpenFailed(err)
      PROVE  StreamInv'
  <2>1. CASE request.status # 0
    BY <1>1, <1>2, <2>1 DEF OpenFailed
  <2>2. CASE request.status = 0
    <3>1. PICK status \in {200, 404, 502} :
            request' = [Respond(status) EXCEPT !.outcome = "STORAGE_UNAVAILABLE"]
      BY <1>2, <2>2, ZenonT(30) DEF OpenFailed, writeStorageError
    <3>2. status \in Statuses /\ status # 206 /\ "STORAGE_UNAVAILABLE" \in Outcomes
      BY DEF Statuses, Outcomes
    <3>3. /\ request' \in RequestState /\ SameSelection(request, request')
          /\ request'.pc = "done" /\ request'.status = status
          /\ request'.outcome = "STORAGE_UNAVAILABLE" /\ request'.body = request.body
      BY <1>0, <3>1, <3>2, RespondWithFacts
    <3> QED
      BY <1>0, <2>2, <3>2, <3>3, BreakKeeps
  <2> QED
    BY <2>1, <2>2
<1>3. CASE /\ OpenRangeAllowed(request.etag, request.offset, SegmentLength)
           /\ request' = [request EXCEPT !.pc = "copy", !.opened = object.etag,
                            !.announced = request.etag,
                            !.status = IF request.selection.partial THEN 206 ELSE 200]
  <2> DEFINE status == IF request.selection.partial THEN 206 ELSE 200
  <2>1. status \in Statuses /\ request' = Opened(request, object.etag, status)
    BY <1>3 DEF Statuses, Opened
  <2>a. /\ request.selection.partial = TRUE => status = 206
        /\ request.selection.partial = FALSE => status = 200
    OBVIOUS
  <2> HIDE DEF status
  <2>2. /\ request' \in RequestState /\ OpenedAs(request, request')
        /\ request'.pc = "copy" /\ request'.opened = object.etag /\ request'.status = status
        /\ request'.outcome = "none" /\ request'.body = request.body
        /\ request'.offset = request.offset /\ request'.remaining = request.remaining
    BY <1>0, <2>1, OpenedFacts
  <2>3. object.etag = request.etag
    BY <1>3 DEF OpenRangeAllowed
  <2>4. TypeInv'
    BY <1>0, <2>2 DEF StreamInv, TypeInv
  <2>5. Selected(request)' /\ NothingYet(request)'
    BY <1>0, <2>2 DEF StreamInv, Selected, NothingYet, InStream, OpenedAs
  <2>6. InStream(request)'
    BY <1>0, <2>a, <2>2, <2>3 DEF StreamInv, InStream, OpenedAs
  <2>7. StatusIsMeant(request)'
    BY <1>0, <2>a, <2>2 DEF StreamInv, InStream, StatusIsMeant, OpenedAs
  <2>8. AsksForRest(request, client)' /\ FileIsPrefix'
    BY <1>0, <2>2 DEF StreamInv, AsksForRest, FileIsPrefix, OpenedAs
  <2>9. BodyIsSelected' /\ CompletedIsWhole'
    BY <2>2 DEF StreamInv, BodyIsSelected, CompletedIsWhole, OpenedAs
  <2> QED
    BY <2>4, <2>5, <2>6, <2>7, <2>8, <2>9 DEF StreamInv
<1> QED
  BY <1>1, <1>2, <1>3 DEF OpenRange

------------------------------------------------------------------------------
(***************************************************************************)
(* The bytes of a segment follow the bytes already written.                *)
(***************************************************************************)
LEMMA WrittenFacts ==
  ASSUME StreamInv, request.pc = "copy", NEW count \in 0..SegmentLength
  PROVE  /\ SegmentLength \in Nat /\ SegmentLength <= request.remaining
         /\ Written(count) \in Seq(Bytes)
         /\ Len(Written(count)) = Len(request.body) + count
         /\ Len(Written(count)) <= request.selection.length
         /\ \A i \in 1..Len(Written(count)) :
              Written(count)[i] = Byte(request.etag, request.selection.offset + i - 1)
<1> DEFINE segment == [i \in 1..count |-> Byte(request.opened, request.offset + i - 1)]
<1>1. /\ request \in RequestState
      /\ request.body \in Seq(Bytes) /\ Len(request.body) \in Nat
      /\ request.remaining \in Nat /\ request.offset \in Nat /\ request.etag \in Nat
      /\ request.opened = request.etag
      /\ Len(request.body) + request.remaining = request.selection.length
      /\ request.offset = request.selection.offset + Len(request.body)
      /\ request.selection.offset \in Nat
  BY DEF StreamInv, TypeInv, RequestState, InStream, Selections
<1>2. SegmentLength \in Nat /\ SegmentLength <= request.remaining
  BY <1>1, DownloadAssumption DEF SegmentLength, Smaller
<1>3. count \in Nat /\ count <= request.remaining
  BY <1>1, <1>2
<1>4. /\ segment \in Seq(Bytes) /\ Len(segment) = count
      /\ \A i \in 1..count : segment[i] = Byte(request.opened, request.offset + i - 1)
  BY <1>1, <1>3 DEF Byte, Bytes
<1>5. Written(count) = request.body \o segment
  BY DEF Written
<1> HIDE DEF segment
<1>6. /\ Written(count) \in Seq(Bytes)
      /\ Len(Written(count)) = Len(request.body) + count
      /\ \A i \in 1..(Len(request.body) + count) :
           Written(count)[i] = IF i <= Len(request.body) THEN request.body[i]
                               ELSE segment[i - Len(request.body)]
  <2>1. PICK body \in Seq(Bytes) : body = request.body
    BY <1>1
  <2>2. PICK rest \in Seq(Bytes) : rest = segment
    BY <1>4
  <2>3. /\ body \o rest \in Seq(Bytes)
        /\ Len(body \o rest) = Len(body) + Len(rest)
        /\ \A i \in 1..(Len(body) + Len(rest)) :
             (body \o rest)[i] = IF i <= Len(body) THEN body[i] ELSE rest[i - Len(body)]
    BY ConcatProperties
  <2>4. Written(count) = body \o rest /\ Len(rest) = count
    BY <1>4, <1>5, <2>1, <2>2
  <2> QED
    BY <2>1, <2>2, <2>3, <2>4
<1>7. ASSUME NEW i \in 1..(Len(request.body) + count)
      PROVE  Written(count)[i] = Byte(request.etag, request.selection.offset + i - 1)
  <2>1. CASE i <= Len(request.body)
    BY <1>6, <2>1, <1>1, <1>3 DEF StreamInv, BodyIsSelected
  <2>2. CASE i > Len(request.body)
    <3>1. i - Len(request.body) \in 1..count
      BY <1>1, <1>3, <2>2
    <3>2. request.offset + (i - Len(request.body)) - 1 = request.selection.offset + i - 1
      BY <1>1, <2>2
    <3> QED
      BY <1>1, <1>3, <1>4, <1>6, <2>2, <3>1, <3>2
  <2> QED
    BY <1>1, <1>3, <2>1, <2>2
<1>8. request.selection.length \in Nat
  BY <1>1 DEF RequestState, Selections
<1> QED
  BY <1>1, <1>2, <1>3, <1>6, <1>7, <1>8

\* The response grows by a part of the open segment and ends without being complete.
LEMMA CutKeeps ==
  ASSUME StreamInv, request.pc = "copy", NEW count \in 0..SegmentLength,
         UNCHANGED <<object, client>>,
         left' \in BOOLEAN, server' \in {"serving", "stopping", "down"},
         request' \in RequestState, request'.pc = "done", SameSelection(request, request'),
         request'.status = request.status, request'.body = Written(count),
         request'.outcome = "STREAM_COMPLETED" => count = request.remaining
  PROVE  StreamInv'
<1>1. /\ Len(Written(count)) = Len(request.body) + count
      /\ Len(Written(count)) <= request.selection.length
      /\ \A i \in 1..Len(Written(count)) :
           Written(count)[i] = Byte(request.etag, request.selection.offset + i - 1)
  BY WrittenFacts
<1>2. /\ request.etag # 0 /\ request.status \in {200, 206} /\ request.announced # 0
      /\ Len(request.body) + request.remaining = request.selection.length
  BY DEF StreamInv, InStream
<1>3. BodyIsSelected'
  BY <1>1 DEF BodyIsSelected, SameSelection
<1>4. CompletedIsWhole'
  BY <1>1, <1>2 DEF CompletedIsWhole, ContentLength, SameSelection
<1> QED
  BY <1>2, <1>3, <1>4, EndKeeps

Continued(body) ==
  [request EXCEPT !.pc = "open", !.body = body, !.offset = @ + SegmentLength,
                  !.remaining = @ - SegmentLength]

LEMMA ContinuedFacts ==
  ASSUME request \in RequestState, NEW body \in Seq(Bytes),
         request.offset + SegmentLength \in Nat, request.remaining - SegmentLength \in Nat,
         request' = Continued(body)
  PROVE  /\ request' \in RequestState /\ SameSelection(request, request')
         /\ request'.pc = "open" /\ request'.status = request.status
         /\ request'.outcome = request.outcome /\ request'.body = body
         /\ request'.offset = request.offset + SegmentLength
         /\ request'.remaining = request.remaining - SegmentLength
<1>1. "open" \in Steps
  BY DEF Steps
<1> QED
  BY <1>1, Zenon DEF RequestState, SameSelection, Continued

(***************************************************************************)
(* A segment is copied, wholly or in part: copySegment.                    *)
(***************************************************************************)
LEMMA CopyKeeps ==
  ASSUME StreamInv, NEW count \in 0..SegmentLength, NEW closed \in BOOLEAN,
         copySegment(count, closed)
  PROVE  StreamInv'
<1>0. /\ request \in RequestState /\ request.pc = "copy"
      /\ request.etag # 0 /\ request.selection.allowed /\ request.outcome = "none"
      /\ request.status \in {200, 206} /\ request.announced # 0
      /\ request.body \in Seq(Bytes) /\ Len(request.body) \in Nat
      /\ request.remaining \in Nat /\ request.offset \in Nat
      /\ Len(request.body) + request.remaining = request.selection.length
      /\ request.offset = request.selection.offset + Len(request.body)
      /\ request.selection.offset \in Nat
      /\ UNCHANGED <<object, client>>
      /\ left' \in BOOLEAN /\ server' \in {"serving", "stopping", "down"}
  BY DEF StreamInv, TypeInv, RequestState, InStream, Selections, copySegment
<1>1. /\ SegmentLength \in Nat /\ SegmentLength <= request.remaining
      /\ Written(count) \in Seq(Bytes)
      /\ Len(Written(count)) = Len(request.body) + count
      /\ Len(Written(count)) <= request.selection.length
      /\ \A i \in 1..Len(Written(count)) :
           Written(count)[i] = Byte(request.etag, request.selection.offset + i - 1)
  BY <1>0, WrittenFacts
<1>2. ASSUME NEW outcome \in Outcomes, request' = [End(outcome) EXCEPT !.body = Written(count)],
             outcome = "STREAM_COMPLETED" => count = request.remaining
      PROVE  StreamInv'
  <2>1. /\ request' \in RequestState /\ SameSelection(request, request')
        /\ request'.pc = "done" /\ request'.status = request.status
        /\ request'.outcome = outcome /\ request'.body = Written(count)
    BY <1>0, <1>1, <1>2, EndWithFacts
  <2> QED
    BY <1>0, <1>2, <2>1, CutKeeps
<1>3. CASE /\ ~copied(count, closed)
           /\ request' = [End(streamFailureOutcome) EXCEPT !.body = Written(count)]
  <2>1. streamFailureOutcome \in Outcomes /\ streamFailureOutcome # "STREAM_COMPLETED"
    BY DEF streamFailureOutcome, Outcomes
  <2> QED
    BY <1>2, <1>3, <2>1
<1>4. CASE /\ copied(count, closed) /\ request.remaining = SegmentLength
           /\ request' = [End("STREAM_COMPLETED") EXCEPT !.body = Written(count)]
  <2>1. "STREAM_COMPLETED" \in Outcomes /\ count = request.remaining
    BY <1>4 DEF copied, Outcomes
  <2> QED
    BY <1>2, <1>4, <2>1
<1>5. CASE /\ copied(count, closed) /\ request.remaining > SegmentLength
           /\ request' = [request EXCEPT !.pc = "open", !.body = Written(count),
                                         !.offset = @ + SegmentLength,
                                         !.remaining = @ - SegmentLength]
  <2>1. request' = Continued(Written(count))
    BY <1>5 DEF Continued
  <2>2. /\ request.offset + SegmentLength \in Nat
        /\ request.remaining - SegmentLength \in Nat
        /\ request.remaining - SegmentLength > 0
        /\ count = SegmentLength
    BY <1>0, <1>1, <1>5 DEF copied
  <2>3. /\ request' \in RequestState /\ SameSelection(request, request')
        /\ request'.pc = "open" /\ request'.status = request.status
        /\ request'.outcome = request.outcome /\ request'.body = Written(count)
        /\ request'.offset = request.offset + SegmentLength
        /\ request'.remaining = request.remaining - SegmentLength
    BY <1>0, <1>1, <2>1, <2>2, ContinuedFacts
  <2>4. TypeInv'
    BY <1>0, <2>3 DEF StreamInv, TypeInv
  <2>5. Selected(request)' /\ NothingYet(request)'
    BY <1>0, <2>3 DEF StreamInv, Selected, NothingYet, SameSelection
  <2>6. InStream(request)'
    <3>1. /\ Len(request'.body) = Len(request.body) + SegmentLength
          /\ Len(request'.body) + request'.remaining = request.selection.length
          /\ request'.offset = request.selection.offset + Len(request'.body)
      <4>1. Len(request'.body) = Len(request.body) + SegmentLength
        BY <1>1, <2>2, <2>3
      <4>2. request.selection.length \in Nat /\ SegmentLength \in Nat
        BY <1>0, <1>1 DEF RequestState, Selections
      <4>3. /\ request'.remaining = request.remaining - SegmentLength
            /\ request'.offset = request.selection.offset + Len(request.body) + SegmentLength
        BY <1>0, <2>3
      <4>4. \A o, l, n, r \in Nat : o + l + n = o + (l + n) /\ (l + n) + (r - n) = l + r
        OBVIOUS
      <4>5. Len(request'.body) + request'.remaining = request.selection.length
        BY <1>0, <4>1, <4>2, <4>3, <4>4
      <4>6. request'.offset = request.selection.offset + Len(request'.body)
        <5>1. request.selection.offset + Len(request.body) + SegmentLength
                = request.selection.offset + (Len(request.body) + SegmentLength)
          BY <1>0, <4>2, <4>4
        <5> QED
          BY <4>1, <4>3, <5>1
      <4> QED
        BY <4>1, <4>5, <4>6
    <3> QED
      BY <1>0, <2>2, <2>3, <3>1 DEF InStream, SameSelection
  <2>7. StatusIsMeant(request)'
    BY <1>0, <2>3 DEF StreamInv, StatusIsMeant, SameSelection
  <2>8. AsksForRest(request, client)' /\ FileIsPrefix'
    BY <1>0, <2>3 DEF StreamInv, AsksForRest, FileIsPrefix, SameSelection
  <2>9. BodyIsSelected' /\ CompletedIsWhole'
    <3>1. BodyIsSelected'
      BY <1>1, <2>3 DEF BodyIsSelected, SameSelection
    <3> QED
      BY <1>0, <2>3, <3>1 DEF CompletedIsWhole
  <2> QED
    BY <2>4, <2>5, <2>6, <2>7, <2>8, <2>9 DEF StreamInv
<1> QED
  BY <1>3, <1>4, <1>5 DEF copySegment

(***************************************************************************)
(* The process dies: what was written by then is all there is.             *)
(***************************************************************************)
LEMMA ExitKeeps ==
  ASSUME StreamInv, NEW count \in 0..SegmentLength, Exit(count)
  PROVE  StreamInv'
<1>0. /\ request \in RequestState
      /\ request.pc \in {"stat", "open", "copy"} => request.outcome = "none"
      /\ UNCHANGED <<object, client>>
      /\ left' \in BOOLEAN /\ server' \in {"serving", "stopping", "down"}
  BY DEF StreamInv, TypeInv, InStream, NothingYet, Exit
<1>1. CASE request.pc \in {"stat", "open"}
  <2>1. request' = [request EXCEPT !.pc = "done"]
    BY <1>1 DEF Exit
  <2>2. /\ request' \in RequestState /\ SameSelection(request, request')
        /\ request'.pc = "done" /\ request'.status = request.status
        /\ request'.outcome = request.outcome /\ request'.body = request.body
    BY <1>0, <2>1, StopFacts, Zenon
  <2> QED
    BY <1>0, <1>1, <2>2, BreakKeeps
<1>2. CASE request.pc = "copy"
  <2>1. request' = [request EXCEPT !.pc = "done", !.body = Written(count)]
    BY <1>2 DEF Exit
  <2>2. Written(count) \in Seq(Bytes)
    BY <1>2, WrittenFacts
  <2>3. /\ request' \in RequestState /\ SameSelection(request, request')
        /\ request'.pc = "done" /\ request'.status = request.status
        /\ request'.outcome = request.outcome /\ request'.body = Written(count)
    BY <1>0, <2>1, <2>2, StopWithFacts, Zenon
  <2> QED
    BY <1>0, <1>2, <2>3, CutKeeps
<1>3. CASE request.pc \notin {"stat", "open", "copy"}
  <2>1. UNCHANGED <<request, client>>
    BY <1>0, <1>3 DEF Exit
  <2>2. TypeInv'
    BY <1>0, <2>1 DEF StreamInv, TypeInv
  <2> QED
    BY <2>1, <2>2, Untouched
<1> QED
  BY <1>1, <1>2, <1>3

------------------------------------------------------------------------------
(***************************************************************************)
(* A partial answer to a resumption starts where the client's bytes end,   *)
(* and is of their version.                                                *)
(***************************************************************************)
LEMMA ResumptionFits ==
  ASSUME StreamInv, request.status = 206, request.resume
  PROVE  request.etag = client.etag /\ request.selection.offset = Len(client.bytes)
<1>1. /\ request.selection.partial /\ request.etag # 0
      /\ client.etag # 0 /\ request.validator = client.etag
      /\ request.range = RangeHeader(Len(client.bytes), Absent)
      /\ Len(client.bytes) \in Nat /\ client.etag \in Nat
      /\ request.selection = Select(request.range, request.validator, request.size,
                                    request.etag)
  BY DEF StreamInv, TypeInv, Files, StatusIsMeant, NothingYet, AsksForRest, Selected
<1>2. /\ ifRangePermits(request.validator, request.etag)
      /\ request.selection.offset = start(request.range, request.size)
  BY <1>1 DEF Select, Full, Invalid, RangeHeader
<1>3. start(request.range, request.size) = Len(client.bytes)
  BY <1>1 DEF start, RangeHeader, Absent
<1> QED
  BY <1>1, <1>2, <1>3 DEF ifRangePermits, NoValidator

LEMMA ReceiveKeeps ==
  ASSUME StreamInv, NEW count \in 0..Len(request.body), Receive(count)
  PROVE  StreamInv'
<1> DEFINE received == SubSeq(request.body, 1, count)
<1>0. /\ request' = Idle /\ left' = FALSE /\ UNCHANGED <<object, server>>
      /\ request.body \in Seq(Bytes) /\ Len(request.body) \in Nat
      /\ client.bytes \in Seq(Bytes) /\ Len(client.bytes) \in Nat
      /\ client \in Files /\ request.etag \in Nat
      /\ request.selection.offset \in Nat
  BY SMTT(30) DEF StreamInv, TypeInv, Files, RequestState, Selections, Receive
<1>1. /\ received \in Seq(Bytes) /\ Len(received) = count
      /\ \A i \in 1..count : received[i] = request.body[i]
  <2>1. count \in Nat /\ count <= Len(request.body)
    BY <1>0
  <2> QED
    BY <1>0, <2>1, SubSeqProperties
<1>2. \A i \in 1..count :
        received[i] = Byte(request.etag, request.selection.offset + i - 1)
  BY <1>0, <1>1 DEF StreamInv, BodyIsSelected
<1> HIDE DEF received
<1>3. /\ client' \in Files
      /\ client'.bytes # << >> => client'.etag # 0
      /\ FileIsPrefix'
  <2>1. CASE request.status = 200
    <3>1. client' = [etag |-> request.announced, total |-> ContentLength(request),
                     bytes |-> received]
      BY <2>1 DEF Receive, received
    <3>2. ContentLength(request) \in Nat /\ request.announced \in Nat
      BY DEF ContentLength, StreamInv, TypeInv, RequestState, Selections
    <3>3. /\ client' \in Files
          /\ client'.etag = request.announced /\ client'.bytes = received
      BY <1>1, <3>1, <3>2 DEF Files
    <3>4. CASE request.announced = 0
      <4>1. count = 0
        BY <1>0, <3>4 DEF StreamInv, StatusIsMeant
      <4>2. received = << >>
        BY <1>1, <4>1, EmptySeq
      <4> QED
        BY <3>3, <4>2 DEF FileIsPrefix
    <3>5. CASE request.announced # 0
      <4>1. /\ request.announced = request.etag /\ request.etag # 0
            /\ request.selection.allowed /\ ~request.selection.partial
        BY <2>1, <3>5 DEF StreamInv, StatusIsMeant
      <4>2. request.selection.offset = 0
        BY <4>1 DEF StreamInv, Selected, Select, Full, Invalid
      <4> QED
        BY <1>0, <1>1, <1>2, <3>3, <4>1, <4>2 DEF FileIsPrefix
    <3> QED
      BY <3>4, <3>5
  <2>2. CASE request.status = 206 /\ request.resume
    <3>1. client' = [client EXCEPT !.bytes = client.bytes \o received]
      BY <2>2 DEF Receive, received
    <3>2. request.etag = client.etag /\ request.selection.offset = Len(client.bytes)
      BY <2>2, ResumptionFits
    <3>3. client.etag # 0
      BY <2>2 DEF StreamInv, AsksForRest
    <3>4. /\ client.bytes \o received \in Seq(Bytes)
          /\ Len(client.bytes \o received) = Len(client.bytes) + count
          /\ \A i \in 1..(Len(client.bytes) + count) :
               (client.bytes \o received)[i] =
                 IF i <= Len(client.bytes) THEN client.bytes[i]
                 ELSE received[i - Len(client.bytes)]
      BY <1>0, <1>1, ConcatProperties
    <3>5. ASSUME NEW i \in 1..(Len(client.bytes) + count)
          PROVE  (client.bytes \o received)[i] = Byte(client.etag, i - 1)
      <4>1. CASE i <= Len(client.bytes)
        <5>1. i \in 1..Len(client.bytes) /\ (client.bytes \o received)[i] = client.bytes[i]
          BY <1>0, <3>4, <4>1
        <5>2. client.bytes[i] = Byte(client.etag, i - 1)
          BY <5>1 DEF StreamInv, FileIsPrefix
        <5> QED
          BY <5>1, <5>2
      <4>2. CASE i > Len(client.bytes)
        <5>1. i - Len(client.bytes) \in 1..count
          BY <1>0, <4>2
        <5>2. Len(client.bytes) + (i - Len(client.bytes)) - 1 = i - 1
          BY <1>0
        <5>3. (client.bytes \o received)[i] = received[i - Len(client.bytes)]
          BY <1>0, <3>4, <4>2
        <5>4. received[i - Len(client.bytes)] =
                Byte(request.etag, request.selection.offset + (i - Len(client.bytes)) - 1)
          BY <1>2, <5>1
        <5> QED
          BY <3>2, <5>2, <5>3, <5>4
      <4>3. i <= Len(client.bytes) \/ i > Len(client.bytes)
        BY <1>0
      <4> QED
        BY <4>1, <4>2, <4>3
    <3>6. /\ client'.bytes = client.bytes \o received /\ client'.etag = client.etag
          /\ client' \in Files
      BY <1>0, <3>1, <3>4 DEF Files
    <3> QED
      BY <1>0, <3>1, <3>3, <3>4, <3>5, <3>6 DEF FileIsPrefix
  <2>3. CASE request.status # 200 /\ ~(request.status = 206 /\ request.resume)
    <3>1. client' = client
      BY <2>3 DEF Receive
    <3> QED
      BY <1>0, <3>1 DEF StreamInv, AsksForRest, FileIsPrefix
  <2> QED
    BY <2>1, <2>2, <2>3
<1>4. TypeInv'
  BY <1>0, <1>3, IdleTypes DEF StreamInv, TypeInv
<1>5. /\ Selected(request)' /\ NothingYet(request)' /\ InStream(request)'
      /\ StatusIsMeant(request)'
  BY <1>0 DEF Idle, Invalid, Selected, NothingYet, InStream, StatusIsMeant
<1>6. AsksForRest(request, client)'
  BY <1>0, <1>3 DEF Idle, AsksForRest
<1>7. BodyIsSelected' /\ CompletedIsWhole'
  BY <1>0 DEF Idle, Invalid, BodyIsSelected, CompletedIsWhole
<1> QED
  BY <1>3, <1>4, <1>5, <1>6, <1>7 DEF StreamInv

\* Nothing of the response arrives.
LEMMA LoseKeeps ==
  ASSUME StreamInv, Lose
  PROVE  StreamInv'
<1>1. request' = Idle /\ left' = FALSE /\ UNCHANGED <<object, server, client>>
  BY DEF Lose
<1>2. TypeInv'
  BY <1>1, IdleTypes DEF StreamInv, TypeInv
<1>3. /\ Selected(request)' /\ NothingYet(request)' /\ InStream(request)'
      /\ StatusIsMeant(request)'
  BY <1>1 DEF Idle, Invalid, Selected, NothingYet, InStream, StatusIsMeant
<1>4. AsksForRest(request, client)' /\ FileIsPrefix'
  BY <1>1 DEF StreamInv, Idle, AsksForRest, FileIsPrefix
<1>5. BodyIsSelected' /\ CompletedIsWhole'
  BY <1>1 DEF Idle, Invalid, BodyIsSelected, CompletedIsWhole
<1> QED
  BY <1>2, <1>3, <1>4, <1>5 DEF StreamInv

------------------------------------------------------------------------------
LEMMA StreamStep == StreamInv /\ [Next]_vars => StreamInv'
<1> SUFFICES ASSUME StreamInv, [Next]_vars
             PROVE  StreamInv'
  OBVIOUS
<1>1. ASSUME NEW size \in Sizes, Replace(size)
      PROVE  StreamInv'
  <2>1. object'.etag = object.etag + 1 /\ object.etag \in Nat /\ size \in Nat
    BY <1>1, DownloadAssumption DEF StreamInv, TypeInv, Replace
  <2>2. TypeInv'
    BY <1>1, <2>1 DEF StreamInv, TypeInv, Replace
  <2> QED
    BY <1>1, <2>2, Untouched DEF Replace
<1>2. CASE Delete
  <2>1. TypeInv'
    BY <1>2 DEF StreamInv, TypeInv, Delete
  <2> QED
    BY <1>2, <2>1, Untouched DEF Delete
<1>3. CASE Leave \/ Signal \/ Start
  <2>1. TypeInv' /\ UNCHANGED <<request, client>>
    BY <1>3 DEF StreamInv, TypeInv, Leave, Signal, Start
  <2> QED
    BY <2>1, Untouched
<1>4. CASE UNCHANGED vars
  <2>1. TypeInv' /\ UNCHANGED <<request, client>>
    BY <1>4 DEF StreamInv, TypeInv, vars
  <2> QED
    BY <2>1, Untouched
<1> QED
  BY <1>1, <1>2, <1>3, <1>4, NewRequestKeeps, StatKeeps, OpenKeeps, CopyKeeps,
     ReceiveKeeps, LoseKeeps, ExitKeeps DEF Next

(***************************************************************************)
(* Between two storage calls the handler always holds one selection, what  *)
(* of it is written, and the version it comes from; between two requests   *)
(* the client's bytes are of the version under whose ETag it resumes.      *)
(***************************************************************************)
THEOREM StreamInductive == Spec => []StreamInv
<1>1. Init => StreamInv
  BY StreamInit
<1>2. StreamInv /\ [Next]_vars => StreamInv'
  BY StreamStep
<1> QED
  BY <1>1, <1>2, PTL DEF Spec

(***************************************************************************)
(* For every size, header and validator, Select answers what the range     *)
(* means, and refuses only what names no byte or is not one range in       *)
(* numbers of 63 bits (range.go).                                          *)
(***************************************************************************)
THEOREM AnswersAreMeant == Spec => []AnswerIsMeant
<1>1. StreamInv => AnswerIsMeant
  BY SelectedIsMeant DEF StreamInv
<1> QED
  BY <1>1, StreamInductive, PTL

(***************************************************************************)
(* A response never mixes two versions, whenever the object is replaced or *)
(* deleted between two segments (stream in handler.go, OpenRange in        *)
(* azure.go).                                                              *)
(***************************************************************************)
THEOREM StreamsAreOneVersion == Spec => []StreamIsOneVersion
<1>1. ASSUME StreamInv PROVE StreamIsOneVersion
  <2>1. CASE request.announced = 0
    <3>1. Len(request.body) = 0
      BY <1>1, <2>1 DEF StreamInv, StatusIsMeant
    <3> QED
      BY <2>1, <3>1 DEF StreamIsOneVersion, ContentLength
  <2>2. CASE request.announced # 0
    BY <1>1, <2>2 DEF StreamInv, StatusIsMeant, BodyIsSelected, StreamIsOneVersion,
                      ContentLength
  <2> QED
    BY <2>1, <2>2
<1> QED
  BY <1>1, StreamInductive, PTL

(***************************************************************************)
(* The event stream_completed is logged only for a response whose every    *)
(* announced byte was written.                                             *)
(***************************************************************************)
THEOREM CompletedAreWhole == Spec => []CompletedIsWhole
<1>1. StreamInv => CompletedIsWhole
  BY DEF StreamInv
<1> QED
  BY <1>1, StreamInductive, PTL

------------------------------------------------------------------------------
\* A step that keeps the version of the request, or ends the request.
LEMMA SameVersions ==
  ASSUME StreamInv, SizesAgree, UNCHANGED <<object, client>>,
         \/ request'.etag = request.etag /\ request'.size = request.size
         \/ request'.etag = 0
  PROVE  SizesAgree'
<1>1. object.etag \in Nat \ {0}
  BY DEF StreamInv, TypeInv
<1> QED
  BY <1>1 DEF SizesAgree

\* After the metadata read no step of the handler changes the version (stream).
LEMMA StreamSizes ==
  ASSUME StreamInv, SizesAgree,
         \/ OpenRange
         \/ \E count \in 0..SegmentLength, closed \in BOOLEAN : copySegment(count, closed)
         \/ \E count \in 0..SegmentLength : Exit(count)
  PROVE  SizesAgree'
<1>0. request \in RequestState
  BY DEF StreamInv, TypeInv
<1>1. CASE OpenRange
  <2>1. /\ UNCHANGED <<object, client>>
        /\ request'.etag = request.etag /\ request'.size = request.size
    BY <1>0, <1>1, ZenonT(30) DEF OpenRange, OpenFailed, writeStorageError, Respond, End, RequestState
  <2> QED
    BY <2>1, SameVersions
<1>2. ASSUME NEW count, NEW closed, copySegment(count, closed)
      PROVE  SizesAgree'
  <2>1. /\ UNCHANGED <<object, client>>
        /\ request'.etag = request.etag /\ request'.size = request.size
    BY <1>0, <1>2 DEF copySegment, End, RequestState
  <2> QED
    BY <2>1, SameVersions
<1>3. ASSUME NEW count, Exit(count)
      PROVE  SizesAgree'
  <2>1. UNCHANGED <<object, client>>
    BY <1>3 DEF Exit
  <2>2. CASE request.pc \in {"stat", "open"}
    BY <1>0, <1>3, <2>1, <2>2, SameVersions DEF Exit, RequestState
  <2>3. CASE request.pc = "copy"
    BY <1>0, <1>3, <2>1, <2>3, SameVersions DEF Exit, RequestState
  <2>4. CASE request.pc \notin {"stat", "open", "copy"}
    BY <1>3, <2>1, <2>4, SameVersions DEF Exit
  <2> QED
    BY <2>2, <2>3, <2>4
<1> QED
  BY <1>1, <1>2, <1>3

\* The metadata read takes size and ETag from the object as it is (Stat).
LEMMA StatSizes ==
  ASSUME StreamInv, SizesAgree, Stat
  PROVE  SizesAgree'
<1>0. /\ request \in RequestState /\ request.etag = 0 /\ UNCHANGED <<object, client>>
      /\ object.etag \in Nat \ {0} /\ client.etag \in Nat
  BY DEF StreamInv, TypeInv, Files, NothingYet, Stat
<1>1. \/ request'.etag = request.etag /\ request'.size = request.size
      \/ request'.etag = object.etag /\ request'.size = object.size
  <2>1. PICK s : s = Select(request.range, request.validator, object.size, object.etag)
    OBVIOUS
  <2>2. PICK a : a = Accepted(request, object.etag, object.size, s)
    OBVIOUS
  <2>3. \/ \E status : request' = Respond(status)
        \/ request' = Refused(a, "done", 416)
        \/ request' = Emptied(a, "done", 200, object.etag, "STREAM_COMPLETED")
        \/ request' = Started(a, "open", s.offset, s.length)
    BY <2>1, <2>2, StatCases, Zenon
  <2>4. \A status : Respond(status).etag = request.etag /\ Respond(status).size = request.size
    BY <1>0 DEF RequestState, Respond
  <2>5. CASE request' = Refused(a, "done", 416)
    BY <1>0, <2>2, <2>5 DEF RequestState, Accepted, Refused
  <2>6. CASE request' = Emptied(a, "done", 200, object.etag, "STREAM_COMPLETED")
    BY <1>0, <2>2, <2>6 DEF RequestState, Accepted, Emptied
  <2>7. CASE request' = Started(a, "open", s.offset, s.length)
    BY <1>0, <2>2, <2>7 DEF RequestState, Accepted, Started
  <2> QED
    BY <2>3, <2>4, <2>5, <2>6, <2>7
<1>2. CASE request'.etag = request.etag /\ request'.size = request.size
  BY <1>0, <1>2, SameVersions
<1>3. CASE request'.etag = object.etag /\ request'.size = object.size
  BY <1>0, <1>3 DEF SizesAgree
<1> QED
  BY <1>1, <1>2, <1>3

\* What an answer adds to the file is within the length promised for its version.
LEMMA ReceiveSizes ==
  ASSUME StreamInv, SizesAgree, NEW count \in 0..Len(request.body), Receive(count)
  PROVE  SizesAgree'
<1> DEFINE received == SubSeq(request.body, 1, count)
<1>0. /\ request'.etag = 0 /\ UNCHANGED object
      /\ request \in RequestState /\ client \in Files
      /\ request.body \in Seq(Bytes) /\ Len(request.body) \in Nat
      /\ client.bytes \in Seq(Bytes) /\ Len(client.bytes) \in Nat
      /\ request.etag \in Nat /\ request.size \in Nat /\ object.etag \in Nat \ {0}
      /\ request.selection.offset \in Nat /\ request.selection.length \in Nat
      /\ Len(request.body) <= request.selection.length
  BY SMTT(30) DEF StreamInv, TypeInv, Files, RequestState, Selections, BodyIsSelected, Receive, Idle
<1>1. /\ received \in Seq(Bytes) /\ Len(received) = count
      /\ count \in Nat /\ count <= request.selection.length
  <2>1. count \in Nat /\ count <= Len(request.body)
    BY <1>0
  <2> QED
    BY <1>0, <2>1, SubSeqProperties
<1>2. request.etag # 0 =>
        /\ request.selection.offset + request.selection.length <= request.size
        /\ request.selection.allowed /\ ~request.selection.partial
             => request.selection.length = request.size
  <2>1. /\ request.range \in RangeHeaders /\ request.validator \in Nat \cup {Unusable}
    BY <1>0 DEF RequestState
  <2>2. request.etag # 0 =>
          request.selection = Select(request.range, request.validator, request.size,
                                     request.etag)
    BY DEF StreamInv, Selected
  <2>3. CASE request.etag # 0
    <3> DEFINE range == request.range
               validator == request.validator
               size == request.size
               etag == request.etag
               sel == request.selection
    <3>1. /\ range \in RangeHeaders /\ validator \in Nat \cup {Unusable}
          /\ size \in Nat /\ etag \in Nat \ {0}
          /\ sel = Select(range, validator, size, etag)
      BY <1>0, <2>1, <2>2, <2>3
    <3>2. /\ sel.offset + sel.length <= size
          /\ sel.allowed /\ ~sel.partial => sel = Full(size)
      <4> HIDE DEF range, validator, size, etag, sel
      <4> QED
        BY <3>1, SelectTypes
    <3> QED
      BY <3>2 DEF Full
  <2> QED
    BY <2>3
<1> HIDE DEF received
<1>3. CASE request.status = 200
  <2>1. client' = [etag |-> request.announced, total |-> ContentLength(request),
                   bytes |-> received]
    BY <1>3 DEF Receive, received
  <2>2. CASE request.announced = 0
    BY <1>0, <2>1, <2>2 DEF SizesAgree
  <2>3. CASE request.announced # 0
    <3>1. /\ request.announced = request.etag /\ request.etag # 0
          /\ request.selection.allowed /\ ~request.selection.partial
      BY <1>3, <2>3 DEF StreamInv, StatusIsMeant
    <3>2. /\ client'.etag = request.etag /\ client'.total = request.size
          /\ Len(client'.bytes) = count /\ count <= request.size
      BY <1>1, <1>2, <2>1, <2>3, <3>1 DEF ContentLength
    <3> QED
      BY <1>0, <3>1, <3>2 DEF SizesAgree
  <2> QED
    BY <2>2, <2>3
<1>4. CASE request.status = 206 /\ request.resume
  <2>1. client' = [client EXCEPT !.bytes = client.bytes \o received]
    BY <1>4 DEF Receive, received
  <2>2. /\ request.etag = client.etag /\ request.selection.offset = Len(client.bytes)
        /\ request.etag # 0
    BY <1>4, ResumptionFits DEF StreamInv, AsksForRest
  <2>3. Len(client.bytes \o received) = Len(client.bytes) + count
    BY <1>0, <1>1, ConcatProperties
  <2>4. /\ client'.etag = client.etag /\ client'.total = client.total
        /\ Len(client'.bytes) = Len(client.bytes) + count
    BY <1>0, <2>1, <2>3 DEF Files
  <2>5. client.total = request.size
    BY <2>2 DEF SizesAgree
  <2>6. Len(client.bytes) + count <= client.total
    BY <1>0, <1>1, <1>2, <2>2, <2>5
  <2> QED
    BY <1>0, <2>4, <2>6 DEF SizesAgree
<1>5. CASE request.status # 200 /\ ~(request.status = 206 /\ request.resume)
  <2>1. client' = client
    BY <1>5 DEF Receive
  <2> QED
    BY <1>0, <2>1, SameVersions
<1> QED
  BY <1>3, <1>4, <1>5

LEMMA SizesStep == StreamInv /\ SizesAgree /\ [Next]_vars => SizesAgree'
<1> SUFFICES ASSUME StreamInv, SizesAgree, [Next]_vars
             PROVE  SizesAgree'
  OBVIOUS
<1>0. /\ object.etag \in Nat \ {0} /\ request.etag \in Nat /\ client.etag \in Nat
      /\ object \in [there : BOOLEAN, etag : Nat \ {0}, size : Nat]
  BY DEF StreamInv, TypeInv, RequestState, Files
<1>1. ASSUME NEW size \in Sizes, Replace(size)
      PROVE  SizesAgree'
  <2>1. object'.etag = object.etag + 1 /\ UNCHANGED <<request, client>>
    BY <1>1 DEF Replace
  <2> QED
    BY <1>0, <2>1 DEF SizesAgree
<1>2. CASE Delete
  <2>1. /\ object'.etag = object.etag /\ object'.size = object.size
        /\ UNCHANGED <<request, client>>
    BY <1>0, <1>2 DEF Delete
  <2> QED
    BY <2>1 DEF SizesAgree
<1>3. CASE Leave \/ Signal \/ Start \/ UNCHANGED vars
  <2>1. UNCHANGED <<object, request, client>>
    BY <1>3 DEF Leave, Signal, Start, vars
  <2> QED
    BY <2>1, SameVersions
<1>4. ASSUME NEW range, NEW validator, Ask(range, validator) \/ Resume \/ Lose
      PROVE  SizesAgree'
  <2>1. UNCHANGED <<object, client>>
    BY <1>4 DEF Ask, Resume, Lose
  <2>2. Ask(range, validator) => request'.etag = 0
    BY DEF Ask, Idle
  <2>3. Resume => request'.etag = 0
    BY DEF Resume, Idle
  <2>4. Lose => request'.etag = 0
    BY DEF Lose, Idle
  <2> QED
    BY <1>4, <2>1, <2>2, <2>3, <2>4, SameVersions
<1> QED
  BY <1>1, <1>2, <1>3, <1>4, StatSizes, StreamSizes, ReceiveSizes DEF Next

\* The lengths that the client is promised are the sizes of the versions.
LEMMA SizesInductive == Spec => []SizesAgree
<1>1. Init => SizesAgree
  BY DEF Init, Idle, SizesAgree
<1>2. StreamInv /\ SizesAgree /\ [Next]_vars => SizesAgree'
  BY SizesStep
<1> QED
  BY <1>1, <1>2, StreamInductive, PTL DEF Spec

(***************************************************************************)
(* However often a download is interrupted and resumed with If-Range, the  *)
(* client's file is a prefix of one version, and while that version is the *)
(* object the length the client waits for is the object's size.            *)
(***************************************************************************)
THEOREM ResumptionsNeverSplice == Spec => []ResumedFileIsOneVersion
<1>1. StreamInv /\ SizesAgree => ResumedFileIsOneVersion
  BY DEF StreamInv, TypeInv, FileIsPrefix, SizesAgree, ResumedFileIsOneVersion
<1> QED
  BY <1>1, StreamInductive, SizesInductive, PTL

------------------------------------------------------------------------------
\* A step of the calm world is a step of Download (HealthyStep, Restart).
LEMMA CalmStep ==
  ASSUME StreamInv, [LiveNext]_<<vars, calm>>
  PROVE  [Next]_vars
<1>1. Len(request.body) \in Nat /\ request.remaining \in Nat
  BY DEF StreamInv, TypeInv, RequestState
<1>2. SegmentLength \in 0..SegmentLength /\ Len(request.body) \in 0..Len(request.body)
  BY <1>1, DownloadAssumption DEF SegmentLength, Smaller
<1>3. ASSUME HealthyStep PROVE Next
  <2>1. CASE AskAgain
    BY <2>1, RangesAssumption DEF AskAgain, Next
  <2>2. CASE HealthyStat \/ HealthyOpen
    BY <2>2 DEF HealthyStat, HealthyOpen, Next
  <2>3. CASE HealthyCopy
    BY <2>3 DEF HealthyCopy, Next
  <2>4. CASE HealthyReceive
    BY <1>2, <2>4 DEF HealthyReceive, Next
  <2>5. QED
    BY <1>3, <2>1, <2>2, <2>3, <2>4 DEF HealthyStep
<1>4. ASSUME Restart PROVE Next
  BY <1>4 DEF Restart, Next
<1>5. QED
  BY <1>3, <1>4 DEF LiveNext, vars

(***************************************************************************)
(* The world in which downloads complete is one of the worlds of Download: *)
(* whatever is proved of Download holds before and after the calm begins.  *)
(***************************************************************************)
THEOREM CalmIsDownload == LivenessSpec => Spec
<1>1. LiveInit => Init
  BY DEF LiveInit
<1>2. Init => StreamInv
  BY StreamInit
<1>3. StreamInv /\ [Next]_vars => StreamInv'
  BY StreamStep
<1>4. StreamInv /\ [LiveNext]_<<vars, calm>> => [Next]_vars
  BY CalmStep
<1>5. QED
  BY <1>1, <1>2, <1>3, <1>4, PTL DEF LivenessSpec, Spec

------------------------------------------------------------------------------
\* What the handler has sent before it knows the object: nothing (ServeHTTP).
LEMMA NothingSentYet ==
  ASSUME StreamInv, StreamInv', request.pc \in {"idle", "stat"}
  PROVE  StillSent(request, request')
<1>1. request.status = 0 /\ request.body = << >> /\ Len(request'.body) \in Nat
  BY DEF StreamInv, NothingYet, TypeInv, RequestState
<1>2. Len(request.body) = 0
  BY <1>1
<1>3. QED
  BY <1>1, <1>2 DEF StillSent

\* A request whose status line and bytes stand has sent what it had sent.
LEMMA SameIsSent ==
  ASSUME request \in RequestState, NEW s, s.status = request.status, s.body = request.body
  PROVE  StillSent(request, s)
<1>1. Len(request.body) \in Nat
  BY DEF RequestState
<1>2. QED
  BY <1>1 DEF StillSent

\* The bytes of a segment follow the bytes already sent (Written).
LEMMA WrittenIsSent ==
  ASSUME StreamInv, request.pc = "copy", NEW count \in 0..SegmentLength,
         NEW s, s.status = request.status, s.body = Written(count)
  PROVE  StillSent(request, s)
<1>1. /\ Len(request.body) \in Nat
      /\ SegmentLength \in Nat
      /\ Len(s.body) = Len(request.body) + count
      /\ \A i \in 1..Len(s.body) : s.body[i] = Byte(request.etag, request.selection.offset + i - 1)
  BY WrittenFacts, SMTT(60) DEF StreamInv, TypeInv, RequestState
<1>2. \A i \in 1..Len(request.body) :
        request.body[i] = Byte(request.etag, request.selection.offset + i - 1)
  BY <1>1 DEF StreamInv, BodyIsSelected
<1>3. Len(request.body) <= Len(s.body)
  BY <1>1
<1>4. \A i \in 1..Len(request.body) : i \in 1..Len(s.body)
  BY <1>1
<1>5. QED
  BY <1>1, <1>2, <1>3, <1>4 DEF StillSent

\* A segment is opened, or the response ends (OpenRange).
LEMMA OpenAdvances ==
  ASSUME StreamInv, OpenRange
  PROVE  Onward(request, request') /\ StillSent(request, request')
<1>1. /\ request \in RequestState /\ request.pc = "open"
      /\ request.status # 0 =>
           request.status = IF request.selection.partial THEN 206 ELSE 200
      /\ object.etag \in Nat
  BY DEF OpenRange, StreamInv, TypeInv, InStream, StatusIsMeant
<1>2. ASSUME NEW outcome \in Outcomes, request' = End(outcome)
      PROVE  Onward(request, request') /\ StillSent(request, request')
  BY <1>1, <1>2, EndFacts, SameIsSent DEF Onward
<1>3. ASSUME NEW err, request' = OpenFailed(err)
      PROVE  Onward(request, request') /\ StillSent(request, request')
  <2>1. CASE request.status # 0
    <3>1. "STREAM_FAILED" \in Outcomes
      BY DEF Outcomes
    <3>2. QED
      BY <1>2, <1>3, <2>1, <3>1 DEF OpenFailed
  <2>2. CASE request.status = 0
    <3> DEFINE told == IF cancelled \/ err = "deadline" THEN 200
                       ELSE IF err = "not found" THEN 404 ELSE 502
    <3>1. told \in Statuses /\ "STORAGE_UNAVAILABLE" \in Outcomes
      BY DEF Statuses, Outcomes
    <3>2. request' = [Respond(told) EXCEPT !.outcome = "STORAGE_UNAVAILABLE"]
      BY <1>3, <2>2 DEF OpenFailed, writeStorageError
    <3> HIDE DEF told
    <3>3. request'.pc = "done" /\ request'.body = request.body
      BY <1>1, <3>1, <3>2, RespondWithFacts
    <3>4. Len(request.body) \in Nat
      BY <1>1 DEF RequestState
    <3>5. QED
      BY <1>1, <2>2, <3>3, <3>4 DEF Onward, StillSent
  <2>3. QED
    BY <2>1, <2>2
<1>4. ASSUME request' = [request EXCEPT !.pc = "copy", !.opened = object.etag,
                           !.announced = request.etag,
                           !.status = IF request.selection.partial THEN 206 ELSE 200]
      PROVE  Onward(request, request') /\ StillSent(request, request')
  <2> DEFINE status == IF request.selection.partial THEN 206 ELSE 200
  <2>1. status \in Statuses /\ request' = Opened(request, object.etag, status)
    BY <1>4 DEF Statuses, Opened
  <2>2. request.status # 0 => status = request.status
    BY <1>1
  <2> HIDE DEF status
  <2>3. /\ request'.pc = "copy" /\ request'.status = status
        /\ request'.body = request.body /\ request'.remaining = request.remaining
    BY <1>1, <2>1, OpenedFacts
  <2>4. Len(request.body) \in Nat
    BY <1>1 DEF RequestState
  <2>5. QED
    BY <1>1, <2>2, <2>3, <2>4 DEF Onward, StillSent
<1>5. "STREAM_ABANDONED" \in Outcomes
  BY DEF Outcomes
<1>6. QED
  BY <1>2, <1>3, <1>4, <1>5 DEF OpenRange

\* A segment is copied, wholly or in part (copySegment).
LEMMA CopyAdvances ==
  ASSUME StreamInv, NEW count \in 0..SegmentLength, NEW closed \in BOOLEAN,
         copySegment(count, closed)
  PROVE  Onward(request, request') /\ StillSent(request, request')
<1>1. /\ request \in RequestState /\ request.pc = "copy"
      /\ request.remaining \in Nat /\ request.remaining > 0 /\ request.offset \in Nat
  BY DEF copySegment, StreamInv, TypeInv, InStream, RequestState
<1>2. /\ SegmentLength \in Nat /\ SegmentLength > 0 /\ SegmentLength <= request.remaining
      /\ Written(count) \in Seq(Bytes)
  BY <1>1, WrittenFacts, DownloadAssumption DEF SegmentLength, Smaller
<1>3. ASSUME NEW outcome \in Outcomes, request' = [End(outcome) EXCEPT !.body = Written(count)]
      PROVE  Onward(request, request') /\ StillSent(request, request')
  <2>1. request'.pc = "done" /\ request'.status = request.status /\ request'.body = Written(count)
    BY <1>1, <1>2, <1>3, EndWithFacts
  <2>2. QED
    BY <1>1, <2>1, WrittenIsSent DEF Onward
<1>4. ASSUME request.remaining > SegmentLength, request' = Continued(Written(count))
      PROVE  Onward(request, request') /\ StillSent(request, request')
  <2>1. request.offset + SegmentLength \in Nat /\ request.remaining - SegmentLength \in Nat
    BY <1>1, <1>2
  <2>2. /\ request'.pc = "open" /\ request'.status = request.status
        /\ request'.body = Written(count)
        /\ request'.remaining = request.remaining - SegmentLength
    BY <1>1, <1>2, <1>4, <2>1, ContinuedFacts
  <2>3. request'.remaining < request.remaining
    BY <1>1, <1>2, <2>2
  <2>4. QED
    BY <1>1, <2>2, <2>3, WrittenIsSent DEF Onward
<1>5. streamFailureOutcome \in Outcomes /\ "STREAM_COMPLETED" \in Outcomes
  BY DEF streamFailureOutcome, Outcomes
<1>6. QED
  BY <1>3, <1>4, <1>5 DEF copySegment, Continued

\* The process dies in the middle of a response, or without one (Exit).
LEMMA ExitAdvances ==
  ASSUME StreamInv, NEW count \in 0..SegmentLength, Exit(count)
  PROVE  (request' # request => Onward(request, request')) /\ StillSent(request, request')
<1>1. request \in RequestState
  BY DEF StreamInv, TypeInv
<1>2. CASE request.pc \in {"stat", "open"}
  <2>1. request' = [request EXCEPT !.pc = "done"]
    BY <1>2 DEF Exit
  <2>2. QED
    BY <1>1, <1>2, <2>1, StopFacts, SameIsSent DEF Onward
<1>3. CASE request.pc = "copy"
  <2>1. request' = [request EXCEPT !.pc = "done", !.body = Written(count)]
    BY <1>3 DEF Exit
  <2>2. Written(count) \in Seq(Bytes)
    BY <1>3, WrittenFacts
  <2>3. QED
    BY <1>1, <1>3, <2>1, <2>2, StopWithFacts, WrittenIsSent DEF Onward
<1>4. CASE request.pc \notin {"stat", "open", "copy"}
  <2>1. request' = request
    BY <1>4 DEF Exit
  <2>2. QED
    BY <1>1, <2>1, SameIsSent
<1>5. QED
  BY <1>2, <1>3, <1>4

\* The metadata read ends the response or starts the stream (Stat).
LEMMA StatAdvances ==
  ASSUME StreamInv, StreamInv', Stat
  PROVE  Onward(request, request') /\ StillSent(request, request')
<1>1. request \in RequestState /\ request.pc = "stat"
  BY DEF Stat, StreamInv, TypeInv
<1>2. request'.pc \in {"done", "open"}
  <2>1. PICK s : s = Select(request.range, request.validator, object.size, object.etag)
    OBVIOUS
  <2>2. PICK a : a = Accepted(request, object.etag, object.size, s)
    OBVIOUS
  <2>3. \/ \E status : request' = Respond(status)
        \/ request' = Refused(a, "done", 416)
        \/ request' = Emptied(a, "done", 200, object.etag, "STREAM_COMPLETED")
        \/ request' = Started(a, "open", s.offset, s.length)
    BY <2>1, <2>2, StatCases, Zenon
  <2>4. \A status : Respond(status).pc = "done"
    BY <1>1 DEF RequestState, Respond
  <2>5. CASE request' = Refused(a, "done", 416)
    BY <1>1, <2>2, <2>5 DEF RequestState, Accepted, Refused
  <2>6. CASE request' = Emptied(a, "done", 200, object.etag, "STREAM_COMPLETED")
    BY <1>1, <2>2, <2>6 DEF RequestState, Accepted, Emptied
  <2>7. CASE request' = Started(a, "open", s.offset, s.length)
    BY <1>1, <2>2, <2>7 DEF RequestState, Accepted, Started
  <2>8. QED
    BY <2>3, <2>4, <2>5, <2>6, <2>7
<1>3. Onward(request, request')
  BY <1>1, <1>2 DEF Onward
<1>4. QED
  BY <1>1, <1>3, NothingSentYet

\* Every step of the system takes a response onward and keeps what is sent (Next).
LEMMA StreamOnward ==
  ASSUME StreamInv, StreamInv', [Next]_vars
  PROVE  /\ request' # request => Onward(request, request')
         /\ request'.pc # "idle" => StillSent(request, request')
<1> DEFINE Goal == /\ request' # request => Onward(request, request')
                   /\ request'.pc # "idle" => StillSent(request, request')
<1>t. request \in RequestState
  BY DEF StreamInv, TypeInv
<1>1. CASE UNCHANGED request
  BY <1>t, <1>1, SameIsSent
<1>2. ASSUME NEW range, NEW validator, Ask(range, validator) \/ Resume PROVE Goal
  <2>1. request.pc = "idle" /\ request'.pc = "stat"
    BY <1>2 DEF Ask, Resume, Idle
  <2>2. QED
    BY <2>1, NothingSentYet DEF Onward
<1>3. ASSUME NEW count, Receive(count) \/ Lose PROVE Goal
  BY <1>3 DEF Receive, Lose, Onward, Idle
<1>4. CASE \/ \E size \in Sizes : Replace(size)
           \/ Delete \/ Leave \/ Signal \/ Start \/ UNCHANGED vars
  BY <1>1, <1>4 DEF Replace, Delete, Leave, Signal, Start, vars
<1>5. QED
  BY <1>2, <1>3, <1>4, StatAdvances, OpenAdvances, CopyAdvances, ExitAdvances DEF Next

(***************************************************************************)
(* For every object, range and segment size: the loop of stream shortens   *)
(* what remains with every segment, so a response makes a bounded number   *)
(* of storage calls, and the headers come before the first segment only.   *)
(***************************************************************************)
THEOREM ResponsesEnd == Spec => StreamsAdvance
<1>1. StreamInv /\ StreamInv' /\ [Next]_vars
        => [request' # request => Onward(request, request')]_vars
  BY StreamOnward
<1>2. QED
  BY <1>1, StreamInductive, PTL DEF Spec, StreamsAdvance

(***************************************************************************)
(* Whatever fails, is cancelled or is replaced after the first segment was *)
(* opened, the response keeps its one status line, and no byte of it is    *)
(* taken back or sent again (stream, writeStorageError).                   *)
(***************************************************************************)
THEOREM ResponsesStand == Spec => SentStays
<1>1. StreamInv /\ StreamInv' /\ [Next]_vars
        => [request'.pc # "idle" => StillSent(request, request')]_vars
  BY StreamOnward
<1>2. QED
  BY <1>1, StreamInductive, PTL DEF Spec, SentStays
==============================================================================
