--------------------------- MODULE DownloadLiveness ---------------------------
(***************************************************************************)
(* What the client of Download is promised in the end.  At some moment the *)
(* world becomes calm: the object stays as it is, no call fails, nobody    *)
(* hangs up or stops the server, and a client that misses something asks   *)
(* again, for the rest if it holds a part.  The client stops asking when   *)
(* its file looks complete to it.                                          *)
(***************************************************************************)
EXTENDS Download

VARIABLE calm

\* A client may ask without a Range header.
ASSUME RangesAssumption == [kind |-> "none"] \in Ranges

\* All the client can tell of its file: it is as long as the headers promised.
LooksComplete == Len(client.bytes) = client.total

AskAgain ==
  /\ ~LooksComplete
  /\ Resume \/ (client.bytes = << >> /\ Ask([kind |-> "none"], NoValidator))

(***************************************************************************)
(* The storage answers: only the object and a cancelled context can make a *)
(* call fail or a copy end early.                                          *)
(***************************************************************************)
HealthyStat ==
  /\ Stat
  /\ StatAllowed /\ ~cancelled => request'.etag # 0 \/ request'.status = 413

HealthyOpen ==
  /\ OpenRange
  /\ OpenRangeAllowed(request.etag, request.offset, SegmentLength) /\ ~cancelled
       => request'.pc = "copy"

HealthyCopy ==
  \E count \in 0..SegmentLength, closed \in BOOLEAN :
    /\ cancelled \/ copied(count, closed)
    /\ copySegment(count, closed)

\* A client that is still there receives all that is sent.
HealthyReceive ==
  \/ ~left /\ Receive(Len(request.body))
  \/ left /\ \E count \in 0..Len(request.body) : Receive(count)
  \/ left /\ Lose

\* A signal that came before is still obeyed, and the process comes back.
Restart ==
  \/ server = "stopping" /\ \E count \in 0..SegmentLength : Exit(count)
  \/ Start

HealthyStep ==
  \/ AskAgain
  \/ HealthyStat
  \/ HealthyOpen
  \/ HealthyCopy
  \/ HealthyReceive

LiveInit == Init /\ calm = FALSE

LiveNext ==
  \/ ~calm /\ Next /\ UNCHANGED calm
  \/ ~calm /\ calm' = TRUE /\ UNCHANGED vars
  \/ calm /\ (HealthyStep \/ Restart) /\ UNCHANGED calm

\* Handler and client go on, and the process does not stay in between.
LivenessSpec ==
  /\ LiveInit /\ [][LiveNext]_<<vars, calm>>
  /\ WF_<<vars, calm>>(calm /\ HealthyStep /\ UNCHANGED calm)
  /\ WF_<<vars, calm>>(calm /\ Restart /\ UNCHANGED calm)

\* The client's file is the object as it is.
Whole == client.etag = object.etag /\ Len(client.bytes) = object.size

Available == calm /\ object.there /\ object.size <= MaxObjectSize

(***************************************************************************)
(* A client that asks for as long as its file looks incomplete at last     *)
(* holds a version, whatever it kept of this or an earlier one when its    *)
(* connection broke: the answer to its If-Range either continues its file  *)
(* or starts it anew (ServeHTTP, stream, Select).  The version is the      *)
(* object as it is unless the client held an earlier one completely.  The  *)
(* one way out is the empty answer of writeStorageError, which a client    *)
(* can only meet while a signal is obeyed or a storage call fails: with    *)
(* those behind it no client is misled.                                    *)
(***************************************************************************)
DownloadCompletes ==
  /\ Available ~> LooksComplete
  /\ Available /\ ~LooksComplete /\ server # "stopping" /\ request.pc = "idle" ~> Whole
==============================================================================
