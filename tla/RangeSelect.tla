----------------------------- MODULE RangeSelect -----------------------------
(***************************************************************************)
(* Which bytes of an object a request asks for (internal/download/         *)
(* range.go), and what the two headers mean.                               *)
(*                                                                         *)
(* A Range header is absent ("none"), given more than once ("several"),    *)
(* not one byte range ("malformed"), or gives a first and a last position; *)
(* Absent stands for a number left out, so first = Absent asks for the     *)
(* last bytes.  A validator (If-Range) is the ETag of a version, a         *)
(* positive number; NoValidator; or Unusable: weak, ill-formed, too long   *)
(* or given more than once.                                                *)
(*                                                                         *)
(* A definition named ...Slip is a plausible mistake in the one after it;  *)
(* no specification uses it.                                               *)
(***************************************************************************)
EXTENDS Integers

CONSTANT
  MaxDecimal  \* the largest number parseDecimal accepts, 2^63 - 1 in the program

ASSUME MaxDecimalAssumption == MaxDecimal \in Nat

Absent == -1

NoValidator == 0

Unusable == -1

Smaller(a, b) == IF a < b THEN a ELSE b

Larger(a, b) == IF a < b THEN b ELSE a

\* What parseRange can meet in a Range header.
RangeHeaders ==
  [kind : {"none", "several", "malformed"}]
    \cup [kind : {"bytes"}, first : Nat \cup {Absent}, last : Nat \cup {Absent}]

RangeHeader(first, last) == [kind |-> "bytes", first |-> first, last |-> last]

parseDecimalAllowed(value) == value <= MaxDecimal

\* A range without an end is refused.
parseRangeAllowedSlip(range, size) ==
  /\ range.kind = "bytes"
  /\ size > 0
  /\ range.first < size /\ range.last # Absent /\ range.last >= range.first

parseRangeAllowed(range, size) ==
  /\ range.kind = "bytes"
  /\ size > 0
  /\ parseDecimalAllowed(range.first) /\ parseDecimalAllowed(range.last)
  /\ IF range.first = Absent
     THEN range.last > 0
     ELSE range.first < size /\ (range.last = Absent \/ range.last >= range.first)

start(range, size) ==
  IF range.first = Absent THEN Larger(size - range.last, 0) ELSE range.first

\* A last position beyond the object is kept.
endSlip(range, size) ==
  IF range.first = Absent \/ range.last = Absent THEN size - 1 ELSE range.last

end(range, size) ==
  IF range.first = Absent \/ range.last = Absent
  THEN size - 1
  ELSE Smaller(range.last, size - 1)

\* A usable validator is not compared with the object's.
ifRangePermitsSlip(validator, etag) == validator # Unusable

ifRangePermits(validator, etag) ==
  \/ validator = NoValidator
  \/ validator # Unusable /\ validator = etag

Full(size) == [allowed |-> TRUE, offset |-> 0, length |-> size, partial |-> FALSE]

Invalid == [allowed |-> FALSE, offset |-> 0, length |-> 0, partial |-> FALSE]

Select(range, validator, size, etag) ==
  IF \/ range.kind = "none"
     \/ range.kind # "several" /\ ~ifRangePermits(validator, etag)
  THEN Full(size)
  ELSE IF parseRangeAllowed(range, size)
       THEN [allowed |-> TRUE,
             offset  |-> start(range, size),
             length  |-> end(range, size) - start(range, size) + 1,
             partial |-> TRUE]
       ELSE Invalid

------------------------------------------------------------------------------
(***************************************************************************)
(* The meaning of a byte range: the positions of the object that it names. *)
(***************************************************************************)
Meaning(range, size) ==
  {b \in 0..(size - 1) :
     IF range.first = Absent
     THEN range.last # Absent /\ size - b <= range.last
     ELSE b >= range.first /\ (range.last = Absent \/ b <= range.last)}

Positions(selection) == selection.offset..(selection.offset + selection.length - 1)
==============================================================================
