----------------------------- MODULE MCDownload -----------------------------
(***************************************************************************)
(* A small instance of Download for TLC: every range over numbers on both  *)
(* sides of the size, a number that parseDecimal refuses, and objects of   *)
(* no byte, of less than a segment, of several segments and over the       *)
(* limit.                                                                  *)
(***************************************************************************)
EXTENDS DownloadLiveness

Numbers == Absent..MaxDecimal

TooLarge == MaxDecimal + 1

MCRanges ==
  {[kind |-> kind] : kind \in {"none", "several", "malformed"}}
    \cup {RangeHeader(first, last) : first \in Numbers, last \in Numbers}
    \cup {RangeHeader(TooLarge, Absent), RangeHeader(Absent, TooLarge), RangeHeader(0, TooLarge)}

MCSizes == {0, 1, 3, 4}
==============================================================================
